---- MODULE Spec2Model ----
(***************************************************************************)
(* Resilience core of e2e-seo: the circuit breaker, the retry executor     *)
(* with its backoff computation, the error taxonomy and the logger they    *)
(* report to.  Every operator below is a transcription of the TypeScript   *)
(* it names; the host is single-threaded and cooperative, so one action    *)
(* is one run of code between two await points.                            *)
(***************************************************************************)
EXTENDS Integers, Sequences, FiniteSets, TLC

VARIABLES
  \* ---- CircuitBreaker (one instance) ----
  state,            \* 'CLOSED' | 'OPEN' | 'HALF_OPEN'
  failureCount,     \* private failureCount
  lastFailureTime,  \* private lastFailureTime?: number (Undefined when unset)
  threshold,        \* constructor argument
  timeout,          \* constructor argument
  now,              \* the value Date.now() returns
  nextCall,         \* number of execute() calls made so far
  callPc,           \* position of every execute() call
  streak,           \* history: operation failures since the last success/reset
  last,             \* history: the breaker operation that ran last
  \* ---- ErrorLogger singleton ----
  logs,             \* private logs: LogEntry[]
  minLevel,         \* options.minLevel
  sinks,            \* options.console and options.file
  created,          \* number of times the private constructor has run
  consoleLines,     \* what console.log / console.error have been called for
  fileLines,        \* what has been appended to the log file
  logCalls,         \* number of calls made to the logger's public methods
  lastLog,          \* history: the logger call that ran last
  \* ---- one error value handed to the taxonomy ----
  subject,          \* the thrown value
  verdict,          \* what categorizeError and defaultShouldRetry made of it
  \* ---- one retry() call ----
  opts,             \* merged options
  rpc,              \* position of the retry call
  attempt,          \* loop variable
  lastError,        \* let lastError
  outcome,          \* how the retry promise settled
  running,          \* invocations of fn that have not settled yet
  trace,            \* history: the externally visible steps of the call, in order
  slept,            \* history: total of the delays slept
  delay,            \* the delay computed last
  wrap,             \* retryWithErrorHandling's arguments, when it made the call
  \* ---- one call of a graceful-degradation combinator ----
  gcall,            \* the combinator called, its options, what each operation does
  gpc,              \* position of every operation handed to it
  gresults,         \* the outcome recorded for every operation
  gorder,           \* history: the operations in the order they settled
  goutcome,         \* how the combinator's promise settled
  gtimer,           \* withTimeout's timer: "off", "armed" or "fired"
  \* ---- one SEOChecker ----
  browser,          \* private browser: null, or a browser that is open or closed
  page,             \* private page: null, or a page that is open or closed
  checkPc,          \* position of the check() call
  checkers,         \* position of every checker's checkAll()
  checkResult,      \* what the try block of check() ended with
  checkOutcome,     \* how the promise of check() settled
  closePc           \* position of a close() call made after check()

cbVars == <<state, failureCount, lastFailureTime, threshold, timeout, now,
            nextCall, callPc, streak, last>>
logVars == <<logs, minLevel, sinks, created, consoleLines, fileLines, logCalls,
             lastLog>>
taxVars == <<subject, verdict>>
retryVars == <<opts, rpc, attempt, lastError, outcome, running, trace, slept, delay,
               wrap>>
gVars == <<gcall, gpc, gresults, gorder, goutcome, gtimer>>
seoVars == <<browser, page, checkPc, checkers, checkResult, checkOutcome, closePc>>
vars == <<cbVars, logVars, taxVars, retryVars, gVars, seoVars>>

----------------------------------------------------------------------------
(* Bounds of the model *)

MaxCalls == 3
MaxTime == 3
MaxThreshold == 2
MaxTimeout == 2
MaxAttempts == 3     \* largest maxAttempts option tried
RandDen == 4         \* Math.random() ranges over n / RandDen, n in 0..RandDen-1
MaxDelayArg == 4     \* calculateDelay on its own: delays are 0..MaxDelayArg units
DelayUnit == 100     \* calculateDelay on its own: milliseconds in a unit
MaxMultiplier == 3   \* largest backoffMultiplier given to calculateDelay on its own
MaxLogCalls == 2     \* the logger on its own: calls made to its logging methods
MaxEntries == 3      \* most entries handed to the batch and parallel combinators
MaxCheckers == 3     \* checkers run by SEOChecker.check() (eleven in the source)

\* The execute() calls of a run, numbered in the order they are made.
Calls == 1..MaxCalls

Undefined == -1   \* the JavaScript value undefined of an optional number

----------------------------------------------------------------------------
(* Error taxonomy (types.ts) *)

\* A failure value.  cls is its class ("Error" for a value that is no
\* SEOCheckerError), text the set of message patterns its message contains,
\* src/by the place that threw it (the identity of the value); checkName, url
\* and retryCount are the optional context fields, unset at construction.
Failure(cls, category, severity, text, src, by) ==
  [cls |-> cls, category |-> category, severity |-> severity, text |-> text,
   src |-> src, by |-> by, checkName |-> "undefined", url |-> "undefined",
   retryCount |-> Undefined, shared |-> FALSE]

\* An error object built once, before the call, and thrown again every time:
\* all its throws are one and the same object.
Shared(e) == [e EXCEPT !.shared = TRUE]

\* Two values are the same error object.
SameObject(x, y) ==
  /\ x.shared /\ y.shared
  /\ x.cls = y.cls /\ x.src = y.src /\ x.text = y.text

\* The JavaScript value undefined where a failure value is expected.
NoError == Failure("undefined", "none", "none", {}, "none", 0)

\* Variant of the constructors: the severity defaults to WARNING.
CategorizedAtWarning(cls, category, e) ==
  Failure(cls, category, "WARNING", e.text, e.src, e.by)

\* new <Class>(message, {originalError}): severity defaults to ERROR.
Categorized(cls, category, e) ==
  Failure(cls, category, "ERROR", e.text, e.src, e.by)

\* Variant of categorizeError: the instanceof test is left out, so a
\* SEOCheckerError is classified again by its message.
categorizeErrorAgain(e) ==
  IF "timeout" \in e.text THEN Categorized("TimeoutError", "TIMEOUT", e)
  ELSE IF "network" \in e.text THEN Categorized("NetworkError", "NETWORK", e)
  ELSE IF "browser" \in e.text THEN Categorized("BrowserError", "BROWSER", e)
  ELSE IF "config" \in e.text THEN Categorized("ConfigurationError", "CONFIGURATION", e)
  ELSE Categorized("SEOCheckerError", "UNKNOWN", e)

\* categorizeError(error): a SEOCheckerError is returned as it is; any other
\* value is classified by its message, first matching rule wins.
categorizeError(e) ==
  IF e.cls /= "Error" THEN e
  ELSE IF "timeout" \in e.text THEN Categorized("TimeoutError", "TIMEOUT", e)
  ELSE IF "network" \in e.text THEN Categorized("NetworkError", "NETWORK", e)
  ELSE IF "browser" \in e.text THEN Categorized("BrowserError", "BROWSER", e)
  ELSE IF "config" \in e.text THEN Categorized("ConfigurationError", "CONFIGURATION", e)
  ELSE Categorized("SEOCheckerError", "UNKNOWN", e)

\* ErrorCategory and ErrorSeverity.
Categories == {"NETWORK", "BROWSER", "VALIDATION", "CONFIGURATION", "TIMEOUT",
               "UNKNOWN"}
Severities == {"CRITICAL", "ERROR", "WARNING", "INFO"}

\* The subclasses and the category each constructor forces into the context.
SubclassCategory ==
  [NetworkError |-> "NETWORK", BrowserError |-> "BROWSER",
   ValidationError |-> "VALIDATION", ConfigurationError |-> "CONFIGURATION",
   TimeoutError |-> "TIMEOUT"]

\* What a message may contain: one representative of each group of patterns
\* categorizeError looks for, and "status" for a retryable HTTP status code.
Patterns == {"timeout", "network", "browser", "config", "status"}

\* The values a caller can throw: any value that is no SEOCheckerError, a
\* SEOCheckerError built with any category and severity, and an instance of a
\* subclass, whose category is the one its constructor forces.
Throwables ==
  {Failure("Error", "none", "none", t, "caller", 0) : t \in SUBSET Patterns}
  \cup {Failure("SEOCheckerError", c, sv, t, "caller", 0) :
          c \in Categories, sv \in Severities, t \in SUBSET Patterns}
  \cup {Failure(k, SubclassCategory[k], sv, t, "caller", 0) :
          k \in DOMAIN SubclassCategory, sv \in Severities, t \in SUBSET Patterns}

\* Nothing has been classified yet.
NoVerdict == [done |-> FALSE, once |-> NoError, twice |-> NoError, retry |-> FALSE,
              attempt |-> 0]

----------------------------------------------------------------------------
(* Logger: levels and the core log function *)

LevelDEBUG == 0
LevelINFO == 1
LevelWARN == 2
LevelERROR == 3
LevelCRITICAL == 4

\* getInstance() without an argument, and the empty options object.
NoOptions == [given |-> FALSE, set |-> <<>>]

\* What the history variable `lastLog` records of a call to the logger: the
\* method, the level and severity it logged with, its options argument, what
\* it returned (the instance, or the totals of a summary).
LoggerOp(op, level, severity, arg, instance, totalErrors, totalLogs) ==
  [op |-> op, level |-> level, severity |-> severity, arg |-> arg,
   instance |-> instance, totalErrors |-> totalErrors, totalLogs |-> totalLogs]

\* The constructor's default for options.filePath.
DefaultFilePath == "./e2e-seo-errors.log"

\* No call has been made to the logger yet.
NoLogCall == LoggerOp("none", 0, "none", NoOptions, 0, 0, 0)

\* Variant of the filter: an entry at minLevel itself is dropped too.
LogAboveMin(history, min, entry) ==
  IF entry.level <= min THEN history ELSE Append(history, entry)

\* ErrorLogger.log: entries below minLevel are dropped, others are pushed.
Log(history, min, entry) ==
  IF entry.level < min THEN history ELSE Append(history, entry)

\* logToConsole, when options.console is set: one console.error call for an
\* entry at ERROR or above, one console.log call for any other retained entry.
ConsoleAfter(lines, sk, min, level) ==
  IF level < min \/ ~sk.console THEN lines
  ELSE Append(lines, IF level >= LevelERROR THEN "error" ELSE "log")

\* logToFile, when options.file is set: the entry is appended to the file.
FileAfter(lines, sk, min, level) ==
  IF level < min \/ ~sk.file THEN lines ELSE Append(lines, level)

\* Variant of logToFile's catch block: the failure is swallowed unreported.
FileFailureSilent(lines, sk, min, level) == lines

\* The catch block of logToFile: the failure goes to console.error, whatever
\* options.console is.
FileFailureReported(lines, sk, min, level) ==
  IF level < min \/ ~sk.file THEN lines ELSE Append(lines, "fileFailure")

\* ErrorLogger.logWarning(message)
logWarning(history, min, message) ==
  Log(history, min, [level |-> LevelWARN, message |-> message, error |-> NoError,
                     metadata |-> <<>>])

\* Variant of the switch: a severity outside the enum is logged at ERROR.
severityToLogLevelDefaultError(severity) ==
  CASE severity = "CRITICAL" -> LevelCRITICAL
    [] severity = "ERROR" -> LevelERROR
    [] severity = "WARNING" -> LevelWARN
    [] severity = "INFO" -> LevelINFO
    [] OTHER -> LevelERROR

\* ErrorLogger.severityToLogLevel(severity)
severityToLogLevel(severity) ==
  CASE severity = "CRITICAL" -> LevelCRITICAL
    [] severity = "ERROR" -> LevelERROR
    [] severity = "WARNING" -> LevelWARN
    [] severity = "INFO" -> LevelINFO
    [] OTHER -> LevelINFO

\* ErrorLogger.logError(error, metadata)
logError(history, min, error, metadata) ==
  Log(history, min, [level |-> severityToLogLevel(error.severity),
                     message |-> error.text, error |-> error, metadata |-> metadata])

\* Variant of logRetry: the level is taken from the error's severity.
logRetryAtSeverity(history, min, error, a, d) ==
  Log(history, min, [level |-> severityToLogLevel(error.severity),
                     message |-> <<"Retry attempt", a, d>>,
                     error |-> error, metadata |-> <<a, d>>])

\* ErrorLogger.logRetry(error, attempt, delay)
logRetry(history, min, error, a, d) ==
  Log(history, min, [level |-> LevelWARN, message |-> <<"Retry attempt", a, d>>,
                     error |-> error, metadata |-> <<a, d>>])

----------------------------------------------------------------------------
(* Retry executor (retry.ts) *)

DefaultMaxAttempts == 3
DefaultInitialDelay == 1000
DefaultMaxDelay == 10000
DefaultBackoffMultiplier == 2

\* DEFAULT_RETRY_OPTIONS.  callbacks tells whether shouldRetry and onRetry are
\* the defaults or functions the caller supplied.
DEFAULT_RETRY_OPTIONS ==
  [maxAttempts |-> DefaultMaxAttempts, initialDelay |-> DefaultInitialDelay,
   maxDelay |-> DefaultMaxDelay, backoffMultiplier |-> DefaultBackoffMultiplier,
   jitter |-> TRUE, callbacks |-> "default"]

\* Math.pow for natural arguments (Math.pow(x, 0) is 1 for every x).
RECURSIVE Pow(_, _)
Pow(b, e) == IF e = 0 THEN 1 ELSE b * Pow(b, e - 1)

\* Variant of the cap: the larger of the two delays is taken.
MinAsMax(a, b) == IF a < b THEN b ELSE a

\* Math.min
Min(a, b) == IF a < b THEN a ELSE b

\* Variant of calculateDelay: the cap is not applied and the jitter is up to 50%.
calculateDelayLoose(options, a, n) ==
  LET exponentialDelay == options.initialDelay * Pow(options.backoffMultiplier, a - 1)
  IN  IF options.jitter
        THEN (exponentialDelay * (2 * RandDen + n)) \div (2 * RandDen)
        ELSE exponentialDelay

\* calculateDelay(options, attempt), Math.random() having returned n / RandDen:
\* Math.floor(delay + delay * 0.25 * n / RandDen), as one exact division.
calculateDelay(options, a, n) ==
  LET exponentialDelay == options.initialDelay * Pow(options.backoffMultiplier, a - 1)
      capped == Min(exponentialDelay, options.maxDelay)
  IN  IF options.jitter
        THEN (capped * (4 * RandDen + n)) \div (4 * RandDen)
        ELSE capped

\* defaultShouldRetry(error, attempt)
defaultShouldRetry(e, a) ==
  LET categorized == categorizeError(e)
  IN  \/ categorized.cls \in {"NetworkError", "TimeoutError"}
      \/ categorized.cls = "BrowserError" /\ a = 1
      \/ "status" \in e.text

\* The values Math.random() may return, as numerators over RandDen; without
\* jitter it is not called.
Randoms(options) == IF options.jitter THEN 0..(RandDen - 1) ELSE {0}

\* What opts.shouldRetry(error, attempt) may do: the default returns its
\* verdict; a caller's predicate returns either verdict or throws.
ShouldRetryResults(options, e, a) ==
  IF options.callbacks = "default"
    THEN {IF defaultShouldRetry(e, a) THEN "true" ELSE "false"}
    ELSE {"true", "false", "throws"}

\* The failures the operation may throw on attempt a: untyped errors with a
\* network-flavoured and with a plain message, a BrowserError of severity
\* WARNING that the operation built once and throws every time, and a
\* SEOCheckerError built with the category BROWSER.
FnErrors(a) ==
  { Failure("Error", "none", "none", {"network"}, "fn", a),
    Failure("Error", "none", "none", {}, "fn", a),
    Shared(Failure("BrowserError", "BROWSER", "WARNING", {"browser"}, "fn", a)),
    Failure("SEOCheckerError", "BROWSER", "ERROR", {}, "fn", a) }

\* retry() was called directly, not by retryWithErrorHandling.
NoWrap == [on |-> FALSE, checkName |-> "undefined", url |-> "undefined"]

\* Variant of the wrapper's catch block: the severity is written as well.
EnrichAtError(e, checkName, url, a) ==
  [categorizeError(e) EXCEPT !.checkName = checkName, !.url = url,
                             !.retryCount = a - 1, !.severity = "ERROR"]

\* Variant of the wrapper's catch block: retryCount is the attempt's number.
EnrichOffByOne(e, checkName, url, a) ==
  [categorizeError(e) EXCEPT !.checkName = checkName, !.url = url,
                             !.retryCount = a]

\* The catch block of retryWithErrorHandling's wrapper: the failure is
\* categorized and its context gets checkName, url and retryCount.
Enrich(e, checkName, url, a) ==
  [categorizeError(e) EXCEPT !.checkName = checkName, !.url = url,
                             !.retryCount = a - 1]

\* The history after the wrapper's catch block has written checkName, url and
\* retryCount into the object e: a retained entry that holds the same object
\* shows the values just written.
MutateRetained(history, e) ==
  [i \in DOMAIN history |->
     IF SameObject(history[i].error, e)
       THEN [history[i] EXCEPT !.error.checkName = e.checkName,
                               !.error.url = e.url,
                               !.error.retryCount = e.retryCount]
       ELSE history[i]]

\* What retry() sees its function throw on attempt a: the operation's failure,
\* or what retryWithErrorHandling's wrapper made of it.
FnFailures(a) ==
  IF wrap.on THEN {Enrich(e, wrap.checkName, wrap.url, a) : e \in FnErrors(a)}
             ELSE FnErrors(a)

\* What a throwing callback throws.
CallbackError(which, a) == Failure("Error", "none", "none", {}, which, a)

\* No graceful-degradation combinator has been called.
NoGracefulCall ==
  [kind |-> "none", passOnError |-> FALSE, includeErrorDetails |-> FALSE,
   logError |-> FALSE, plans |-> <<>>]

\* How the promise of retry() settled.
Pending == [kind |-> "pending", value |-> 0, error |-> NoError]
Returned(v) == [kind |-> "returned", value |-> v, error |-> NoError]
Rejected(e) == [kind |-> "rejected", value |-> 0, error |-> e]

\* An entry of the history variable `trace`.
Ev(name, k, d, e) == [ev |-> name, k |-> k, d |-> d, err |-> e]

\* Variant of the loop condition: strict.
LoopContinuesStrict(a, options) == a < options.maxAttempts

\* `for (...; attempt <= opts.maxAttempts; ...)`
LoopContinues(a, options) == a <= options.maxAttempts

\* `!shouldRetry || isLastAttempt`
GivesUp(sr, a, options) == sr /= "true" \/ a = options.maxAttempts

\* Variant of `throw error`: the categorized error is thrown instead.
ThrownCategorized(e) == categorizeError(e)

\* `throw error` in the catch block: the value caught is the value thrown.
Thrown(e) == e

\* A retry step leaves the breaker and the logger's options alone.
RetryFrame == UNCHANGED <<cbVars, minLevel, sinks, created, logCalls, lastLog,
                          taxVars, wrap, gVars, seoVars>>

\* Top of the loop, condition true: context is built and fn(context) is called.
RetryInvoke ==
  /\ rpc = "loop"
  /\ LoopContinues(attempt, opts)
  /\ rpc' = "awaitFn"
  /\ running' = running + 1
  /\ trace' = Append(trace, Ev("invoke", attempt, 0, lastError))
  /\ UNCHANGED <<opts, attempt, lastError, outcome, slept, delay, logs, consoleLines,
                 fileLines>>
  /\ RetryFrame

\* Variant of the success path: the result is not returned and the loop goes on.
RetryFnResolvesNoReturn ==
  /\ rpc = "awaitFn"
  /\ running' = running - 1
  /\ attempt' = attempt + 1
  /\ rpc' = "loop"
  /\ trace' = Append(trace, Ev("resolve", attempt, 0, NoError))
  /\ UNCHANGED <<opts, lastError, outcome, slept, delay, logs, consoleLines,
                 fileLines>>
  /\ RetryFrame

\* fn resolved: `return result`.
RetryFnResolves ==
  /\ rpc = "awaitFn"
  /\ running' = running - 1
  /\ outcome' = Returned(attempt)
  /\ rpc' = "returned"
  /\ trace' = Append(trace, Ev("resolve", attempt, 0, NoError))
  /\ UNCHANGED <<opts, attempt, lastError, slept, delay, logs, consoleLines,
                 fileLines>>
  /\ RetryFrame

\* Variant: an exception of opts.shouldRetry is caught and taken for `false`,
\* so the final failure is logged and the operation's failure is thrown.
RetryShouldRetryThrowsCaught(e) ==
  /\ rpc = "awaitFn"
  /\ "throws" \in ShouldRetryResults(opts, e, attempt)
  /\ running' = running - 1
  /\ lastError' = e
  /\ logs' = logError(MutateRetained(logs, e), minLevel, categorizeError(e),
                      <<attempt, slept>>)
  /\ consoleLines' = ConsoleAfter(consoleLines, sinks, minLevel,
                                  severityToLogLevel(categorizeError(e).severity))
  /\ fileLines' = FileAfter(fileLines, sinks, minLevel,
                            severityToLogLevel(categorizeError(e).severity))
  /\ outcome' = Rejected(Thrown(e))
  /\ rpc' = "rejected"
  /\ trace' = trace \o << Ev("reject", attempt, 0, e),
                          Ev("shouldRetry:throws", attempt, 0, e),
                          Ev("callbackThrew", attempt, 0, e) >>
  /\ UNCHANGED <<opts, attempt, slept, delay>>
  /\ RetryFrame

\* fn rejected with e and opts.shouldRetry threw: its exception leaves retry.
RetryShouldRetryThrows(e) ==
  /\ rpc = "awaitFn"
  /\ "throws" \in ShouldRetryResults(opts, e, attempt)
  /\ running' = running - 1
  /\ lastError' = e
  /\ outcome' = Rejected(CallbackError("shouldRetry", attempt))
  /\ rpc' = "rejected"
  /\ trace' = trace \o << Ev("reject", attempt, 0, e),
                          Ev("shouldRetry:throws", attempt, 0, e),
                          Ev("callbackThrew", attempt, 0, e) >>
  /\ logs' = MutateRetained(logs, e)
  /\ UNCHANGED <<opts, attempt, slept, delay, consoleLines, fileLines>>
  /\ RetryFrame

\* fn rejected with e, no retry: the final failure is logged and thrown.
RetryGivesUp(e, sr) ==
  /\ rpc = "awaitFn"
  /\ sr \in ShouldRetryResults(opts, e, attempt) \ {"throws"}
  /\ GivesUp(sr, attempt, opts)
  /\ running' = running - 1
  /\ lastError' = e
  /\ logs' = logError(MutateRetained(logs, e), minLevel, categorizeError(e),
                      <<attempt, slept>>)
  /\ consoleLines' = ConsoleAfter(consoleLines, sinks, minLevel,
                                  severityToLogLevel(categorizeError(e).severity))
  /\ fileLines' = FileAfter(fileLines, sinks, minLevel,
                            severityToLogLevel(categorizeError(e).severity))
  /\ outcome' = Rejected(Thrown(e))
  /\ rpc' = "rejected"
  /\ trace' = trace \o << Ev("reject", attempt, 0, e),
                          Ev(IF sr = "true" THEN "shouldRetry:true"
                                            ELSE "shouldRetry:false", attempt, 0, e),
                          Ev("logError", attempt, 0, categorizeError(e)) >>
  /\ UNCHANGED <<opts, attempt, slept, delay>>
  /\ RetryFrame

\* fn rejected with e, retry wanted, and opts.onRetry threw.
RetryOnRetryThrows(e, n) ==
  /\ rpc = "awaitFn"
  /\ "true" \in ShouldRetryResults(opts, e, attempt)
  /\ ~GivesUp("true", attempt, opts)
  /\ opts.callbacks = "custom"
  /\ running' = running - 1
  /\ lastError' = e
  /\ delay' = calculateDelay(opts, attempt, n)
  /\ outcome' = Rejected(CallbackError("onRetry", attempt))
  /\ rpc' = "rejected"
  /\ trace' = trace \o << Ev("reject", attempt, 0, e),
                          Ev("shouldRetry:true", attempt, 0, e),
                          Ev("onRetry", attempt, calculateDelay(opts, attempt, n), e),
                          Ev("callbackThrew", attempt, 0, e) >>
  /\ logs' = MutateRetained(logs, e)
  /\ UNCHANGED <<opts, attempt, slept, consoleLines, fileLines>>
  /\ RetryFrame

\* Variant of the backoff path: the retry is logged before onRetry is called.
RetryBacksOffLogsFirst(e, n) ==
  /\ rpc = "awaitFn"
  /\ "true" \in ShouldRetryResults(opts, e, attempt)
  /\ ~GivesUp("true", attempt, opts)
  /\ running' = running - 1
  /\ lastError' = e
  /\ delay' = calculateDelay(opts, attempt, n)
  /\ logs' = logRetry(MutateRetained(logs, e), minLevel, categorizeError(e),
                      attempt, calculateDelay(opts, attempt, n))
  /\ consoleLines' = ConsoleAfter(consoleLines, sinks, minLevel, LevelWARN)
  /\ fileLines' = FileAfter(fileLines, sinks, minLevel, LevelWARN)
  /\ rpc' = "sleeping"
  /\ trace' = trace \o << Ev("reject", attempt, 0, e),
                          Ev("shouldRetry:true", attempt, 0, e),
                          Ev("logRetry", attempt, calculateDelay(opts, attempt, n),
                             categorizeError(e)),
                          Ev("onRetry", attempt, calculateDelay(opts, attempt, n), e),
                          Ev("sleep", attempt, calculateDelay(opts, attempt, n), NoError) >>
  /\ UNCHANGED <<opts, attempt, outcome, slept>>
  /\ RetryFrame

\* Variant of the backoff path: sleep(delay) is started but not awaited.
RetryBacksOffNoAwait(e, n) ==
  /\ rpc = "awaitFn"
  /\ "true" \in ShouldRetryResults(opts, e, attempt)
  /\ ~GivesUp("true", attempt, opts)
  /\ running' = running - 1
  /\ lastError' = e
  /\ delay' = calculateDelay(opts, attempt, n)
  /\ logs' = logRetry(MutateRetained(logs, e), minLevel, categorizeError(e),
                      attempt, calculateDelay(opts, attempt, n))
  /\ consoleLines' = ConsoleAfter(consoleLines, sinks, minLevel, LevelWARN)
  /\ fileLines' = FileAfter(fileLines, sinks, minLevel, LevelWARN)
  /\ attempt' = attempt + 1
  /\ rpc' = "loop"
  /\ trace' = trace \o << Ev("reject", attempt, 0, e),
                          Ev("shouldRetry:true", attempt, 0, e),
                          Ev("onRetry", attempt, calculateDelay(opts, attempt, n), e),
                          Ev("logRetry", attempt, calculateDelay(opts, attempt, n),
                             categorizeError(e)),
                          Ev("sleep", attempt, calculateDelay(opts, attempt, n), NoError) >>
  /\ UNCHANGED <<opts, outcome, slept>>
  /\ RetryFrame

\* fn rejected with e, retry wanted: delay computed, onRetry called, the retry
\* logged, and sleep(delay) awaited.
RetryBacksOff(e, n) ==
  /\ rpc = "awaitFn"
  /\ "true" \in ShouldRetryResults(opts, e, attempt)
  /\ ~GivesUp("true", attempt, opts)
  /\ running' = running - 1
  /\ lastError' = e
  /\ delay' = calculateDelay(opts, attempt, n)
  /\ logs' = logRetry(MutateRetained(logs, e), minLevel, categorizeError(e),
                      attempt, calculateDelay(opts, attempt, n))
  /\ consoleLines' = ConsoleAfter(consoleLines, sinks, minLevel, LevelWARN)
  /\ fileLines' = FileAfter(fileLines, sinks, minLevel, LevelWARN)
  /\ rpc' = "sleeping"
  /\ trace' = trace \o << Ev("reject", attempt, 0, e),
                          Ev("shouldRetry:true", attempt, 0, e),
                          Ev("onRetry", attempt, calculateDelay(opts, attempt, n), e),
                          Ev("logRetry", attempt, calculateDelay(opts, attempt, n),
                             categorizeError(e)),
                          Ev("sleep", attempt, calculateDelay(opts, attempt, n), NoError) >>
  /\ UNCHANGED <<opts, attempt, outcome, slept>>
  /\ RetryFrame

\* The timer of sleep(delay) fired: attempt++ and back to the loop condition.
RetryWakes ==
  /\ rpc = "sleeping"
  /\ slept' = slept + delay
  /\ attempt' = attempt + 1
  /\ rpc' = "loop"
  /\ trace' = Append(trace, Ev("wake", attempt, delay, NoError))
  /\ UNCHANGED <<opts, lastError, outcome, running, delay, logs, consoleLines,
                 fileLines>>
  /\ RetryFrame

\* Top of the loop, condition false: `throw lastError` after the loop.
RetryLoopExit ==
  /\ rpc = "loop"
  /\ ~LoopContinues(attempt, opts)
  /\ outcome' = Rejected(lastError)
  /\ rpc' = "rejected"
  /\ trace' = Append(trace, Ev("loopExit", attempt, 0, lastError))
  /\ UNCHANGED <<opts, attempt, lastError, running, slept, delay, logs, consoleLines,
                 fileLines>>
  /\ RetryFrame

\* retry(fn, options) is called: options merged over the defaults, attempt = 1;
\* a fresh breaker and the logger with its default options stand by.
InitRetry ==
  /\ state = "CLOSED"
  /\ failureCount = 0
  /\ lastFailureTime = Undefined
  /\ threshold = 1
  /\ timeout = 1
  /\ now = 0
  /\ nextCall = 0
  /\ callPc = [c \in Calls |-> "idle"]
  /\ streak = 0
  /\ last = [op |-> "new", call |-> 0, pre |-> "CLOSED", fc |-> 0,
             lft |-> Undefined, at |-> 0, others |-> {}, afterReset |-> "no",
             err |-> NoError, out |-> Pending]
  /\ logs = <<>>
  /\ minLevel = LevelINFO
  /\ sinks = [console |-> TRUE, file |-> FALSE, filePath |-> DefaultFilePath]
  /\ created = 1
  /\ consoleLines = <<>>
  /\ fileLines = <<>>
  /\ logCalls = 0
  /\ lastLog = NoLogCall
  /\ subject = NoError
  /\ verdict = NoVerdict
  /\ opts \in [maxAttempts : 0..MaxAttempts, initialDelay : {DefaultInitialDelay},
                maxDelay : {DefaultMaxDelay},
                backoffMultiplier : {DefaultBackoffMultiplier},
                jitter : BOOLEAN, callbacks : {"default", "custom"}]
  /\ rpc = "loop"
  /\ attempt = 1
  /\ lastError = NoError
  /\ outcome = Pending
  /\ running = 0
  /\ trace = <<>>
  /\ slept = 0
  /\ delay = 0
  /\ wrap \in {NoWrap} \cup [on : {TRUE}, checkName : {"meta"},
                             url : {"undefined", "https://a"}]
  /\ gcall = NoGracefulCall
  /\ gpc = <<>>
  /\ gresults = <<>>
  /\ gorder = <<>>
  /\ goutcome = Pending
  /\ gtimer = "off"
  /\ browser = "null"
  /\ page = "null"
  /\ checkPc = "idle"
  /\ checkers = <<>>
  /\ checkResult = Pending
  /\ checkOutcome = Pending
  /\ closePc = "none"

NextRetry ==
  \/ RetryInvoke
  \/ RetryFnResolves
  \/ \E e \in FnFailures(attempt) : RetryShouldRetryThrows(e)
  \/ \E e \in FnFailures(attempt), sr \in {"true", "false"} : RetryGivesUp(e, sr)
  \/ \E e \in FnFailures(attempt), n \in Randoms(opts) : RetryOnRetryThrows(e, n)
  \/ \E e \in FnFailures(attempt), n \in Randoms(opts) : RetryBacksOff(e, n)
  \/ RetryWakes
  \/ RetryLoopExit

SpecRetry == InitRetry /\ [][NextRetry]_vars

----------------------------------------------------------------------------
(* calculateDelay on its own: integer options drawn from bounded sets *)

\* The delays tried: whole numbers of units.
DelayArgs == {k * DelayUnit : k \in 0..MaxDelayArg}

\* calculateDelay(options, attempt) is applied to the options drawn.
CalculateDelay ==
  /\ rpc = "calc"
  /\ \E n \in Randoms(opts) : delay' = calculateDelay(opts, attempt, n)
  /\ rpc' = "calculated"
  /\ UNCHANGED <<opts, attempt, lastError, outcome, running, trace, slept, logs, consoleLines,
                 fileLines>>
  /\ RetryFrame

InitDelay ==
  /\ state = "CLOSED"
  /\ failureCount = 0
  /\ lastFailureTime = Undefined
  /\ threshold = 1
  /\ timeout = 1
  /\ now = 0
  /\ nextCall = 0
  /\ callPc = [c \in Calls |-> "idle"]
  /\ streak = 0
  /\ last = [op |-> "new", call |-> 0, pre |-> "CLOSED", fc |-> 0,
             lft |-> Undefined, at |-> 0, others |-> {}, afterReset |-> "no",
             err |-> NoError, out |-> Pending]
  /\ logs = <<>>
  /\ minLevel = LevelINFO
  /\ sinks = [console |-> TRUE, file |-> FALSE, filePath |-> DefaultFilePath]
  /\ created = 1
  /\ consoleLines = <<>>
  /\ fileLines = <<>>
  /\ logCalls = 0
  /\ lastLog = NoLogCall
  /\ subject = NoError
  /\ verdict = NoVerdict
  /\ opts \in [maxAttempts : {MaxAttempts}, initialDelay : DelayArgs,
                maxDelay : DelayArgs, backoffMultiplier : 0..MaxMultiplier,
                jitter : BOOLEAN, callbacks : {"default"}]
  /\ rpc = "calc"
  /\ attempt \in 1..MaxAttempts
  /\ lastError = NoError
  /\ outcome = Pending
  /\ running = 0
  /\ trace = <<>>
  /\ slept = 0
  /\ delay = 0
  /\ wrap = NoWrap
  /\ gcall = NoGracefulCall
  /\ gpc = <<>>
  /\ gresults = <<>>
  /\ gorder = <<>>
  /\ goutcome = Pending
  /\ gtimer = "off"
  /\ browser = "null"
  /\ page = "null"
  /\ checkPc = "idle"
  /\ checkers = <<>>
  /\ checkResult = Pending
  /\ checkOutcome = Pending
  /\ closePc = "none"

NextDelay == CalculateDelay

SpecDelay == InitDelay /\ [][NextDelay]_vars

----------------------------------------------------------------------------
(* CircuitBreaker *)

\* `this.lastFailureTime && ...`: undefined and 0 are both falsy.
Truthy(t) == t /= Undefined /\ t /= 0

\* Variants of the cooldown test: the comparison turned round, the operands swapped.
CooldownOverTurned(lft, t, to) == Truthy(lft) /\ t - lft < to
CooldownOverSwapped(lft, t, to) == Truthy(lft) /\ lft - t > to

\* execute(): the test that lets an OPEN breaker try again.
CooldownOver(lft, t, to) == Truthy(lft) /\ t - lft > to

\* Variant of the threshold test: off by one.
ReachedThresholdStrict(fc, th) == fc > th

\* onFailure(): the test that opens the breaker.
ReachedThreshold(fc, th) == fc >= th

\* Variant of onSuccess(): the breaker closes but the count is kept.
onSuccessKeepsCount ==
  /\ state' = "CLOSED"
  /\ UNCHANGED <<failureCount, lastFailureTime, logs, consoleLines,
                 fileLines>>

\* onSuccess(): the fields it assigns.
onSuccess ==
  /\ failureCount' = 0
  /\ state' = "CLOSED"
  /\ UNCHANGED <<lastFailureTime, logs, consoleLines,
                 fileLines>>

\* onFailure(): count, stamp, open at the threshold and log the warning.
onFailure ==
  /\ failureCount' = failureCount + 1
  /\ lastFailureTime' = now
  /\ IF ReachedThreshold(failureCount + 1, threshold)
       THEN /\ state' = "OPEN"
            /\ logs' = logWarning(logs, minLevel,
                                  <<"Circuit breaker opened after", failureCount + 1>>)
            /\ consoleLines' = ConsoleAfter(consoleLines, sinks, minLevel, LevelWARN)
            /\ fileLines' = FileAfter(fileLines, sinks, minLevel, LevelWARN)
       ELSE UNCHANGED <<state, logs, consoleLines,
                 fileLines>>

\* execute(): new Error('Circuit breaker is OPEN - too many failures')
CircuitOpen == Failure("Error", "none", "none", {}, "breaker", 0)

\* What the history variable `last` records of an operation.
Op(kind, c) ==
  [op |-> kind, call |-> c, pre |-> state, fc |-> failureCount,
   lft |-> lastFailureTime, at |-> now,
   others |-> {d \in Calls : d /= c /\ callPc[d] = "running"},
   afterReset |-> IF last.op = "reset" THEN last.pre ELSE "no",
   err |-> NoError, out |-> Pending]

\* A breaker step leaves the logger's options and the retry call alone.
BreakerFrame == UNCHANGED <<minLevel, sinks, created, logCalls, lastLog, taxVars,
                            retryVars, gVars, seoVars>>

\* Variant of the rejection: the rejected call is stamped as a failure.
ExecuteRejectedStamped ==
  /\ nextCall < MaxCalls
  /\ state = "OPEN"
  /\ ~CooldownOver(lastFailureTime, now, timeout)
  /\ nextCall' = nextCall + 1
  /\ callPc' = [callPc EXCEPT ![nextCall + 1] = "rejected"]
  /\ last' = [Op("execute", nextCall + 1) EXCEPT !.out = Rejected(CircuitOpen)]
  /\ lastFailureTime' = now
  /\ UNCHANGED <<state, failureCount, threshold, timeout, now,
                 streak, logs, consoleLines,
                 fileLines>>
  /\ BreakerFrame

\* Variant of the rejection: a call made while a HALF_OPEN probe is in flight
\* is rejected too.
ExecuteRejectedWhileProbing ==
  /\ nextCall < MaxCalls
  /\ \/ state = "OPEN" /\ ~CooldownOver(lastFailureTime, now, timeout)
     \/ state = "HALF_OPEN" /\ \E d \in Calls : callPc[d] = "running"
  /\ nextCall' = nextCall + 1
  /\ callPc' = [callPc EXCEPT ![nextCall + 1] = "rejected"]
  /\ last' = [Op("execute", nextCall + 1) EXCEPT !.out = Rejected(CircuitOpen)]
  /\ UNCHANGED <<state, failureCount, lastFailureTime, threshold, timeout, now,
                 streak, logs, consoleLines,
                 fileLines>>
  /\ BreakerFrame

\* execute(fn) up to its first await: rejected while OPEN and cooling down.
ExecuteRejected ==
  /\ nextCall < MaxCalls
  /\ state = "OPEN"
  /\ ~CooldownOver(lastFailureTime, now, timeout)
  /\ nextCall' = nextCall + 1
  /\ callPc' = [callPc EXCEPT ![nextCall + 1] = "rejected"]
  /\ last' = [Op("execute", nextCall + 1) EXCEPT !.out = Rejected(CircuitOpen)]
  /\ UNCHANGED <<state, failureCount, lastFailureTime, threshold, timeout, now,
                 streak, logs, consoleLines,
                 fileLines>>
  /\ BreakerFrame

\* execute(fn) up to its first await: fn() is called and awaited.
ExecuteAdmitted ==
  /\ nextCall < MaxCalls
  /\ IF state = "OPEN"
       THEN /\ CooldownOver(lastFailureTime, now, timeout)
            /\ state' = "HALF_OPEN"
       ELSE UNCHANGED state
  /\ nextCall' = nextCall + 1
  /\ callPc' = [callPc EXCEPT ![nextCall + 1] = "running"]
  /\ last' = Op("execute", nextCall + 1)
  /\ UNCHANGED <<failureCount, lastFailureTime, threshold, timeout, now,
                 streak, logs, consoleLines,
                 fileLines>>
  /\ BreakerFrame

\* execute(fn) after the await, fn resolved: onSuccess(); return result.
ExecuteSucceeds(c) ==
  /\ callPc[c] = "running"
  /\ onSuccess
  /\ callPc' = [callPc EXCEPT ![c] = "returned"]
  /\ streak' = 0
  /\ last' = [Op("succeed", c) EXCEPT !.out = Returned(c)]
  /\ UNCHANGED <<threshold, timeout, now, nextCall>>
  /\ BreakerFrame

\* What the operations given to execute() throw: an untyped error, a typed
\* one of another category and severity.
BreakerErrors ==
  {Failure("Error", "none", "none", {"network"}, "fn", 0),
   Failure("ValidationError", "VALIDATION", "CRITICAL", {}, "fn", 0)}

\* Variant of the catch clause: the failure is replaced by the breaker's own
\* error.
ExecuteFailsWrapped(c, e) ==
  /\ callPc[c] = "running"
  /\ onFailure
  /\ callPc' = [callPc EXCEPT ![c] = "threw"]
  /\ streak' = streak + 1
  /\ last' = [Op("fail", c) EXCEPT !.err = e, !.out = Rejected(CircuitOpen)]
  /\ UNCHANGED <<threshold, timeout, now, nextCall>>
  /\ BreakerFrame

\* Variant of the catch clause: only failures of the network kind count.
ExecuteFailsByCategory(c, e) ==
  /\ callPc[c] = "running"
  /\ IF categorizeError(e).category = "NETWORK" THEN onFailure
     ELSE UNCHANGED <<state, failureCount, lastFailureTime, logs, consoleLines,
                      fileLines>>
  /\ callPc' = [callPc EXCEPT ![c] = "threw"]
  /\ streak' = streak + 1
  /\ last' = [Op("fail", c) EXCEPT !.err = e, !.out = Rejected(e)]
  /\ UNCHANGED <<threshold, timeout, now, nextCall>>
  /\ BreakerFrame

\* execute(fn) after the await, fn rejected with e: onFailure(); throw error.
ExecuteFails(c, e) ==
  /\ callPc[c] = "running"
  /\ onFailure
  /\ callPc' = [callPc EXCEPT ![c] = "threw"]
  /\ streak' = streak + 1
  /\ last' = [Op("fail", c) EXCEPT !.err = e, !.out = Rejected(e)]
  /\ UNCHANGED <<threshold, timeout, now, nextCall>>
  /\ BreakerFrame

\* Variant of reset(): the state is left as it is.
ResetKeepsState ==
  /\ failureCount' = 0
  /\ UNCHANGED state
  /\ lastFailureTime' = Undefined
  /\ streak' = 0
  /\ last' = Op("reset", 0)
  /\ UNCHANGED <<threshold, timeout, now, nextCall, callPc, logs, consoleLines,
                 fileLines>>
  /\ BreakerFrame

\* reset()
Reset ==
  /\ failureCount' = 0
  /\ state' = "CLOSED"
  /\ lastFailureTime' = Undefined
  /\ streak' = 0
  /\ last' = Op("reset", 0)
  /\ UNCHANGED <<threshold, timeout, now, nextCall, callPc, logs, consoleLines,
                 fileLines>>
  /\ BreakerFrame

\* The clock advances between two runs of code.
Tick ==
  /\ now < MaxTime
  /\ now' = now + 1
  /\ UNCHANGED <<state, failureCount, lastFailureTime, threshold, timeout,
                 nextCall, callPc, streak, last, logs, consoleLines,
                 fileLines>>
  /\ BreakerFrame

\* new CircuitBreaker(threshold, timeout), the logger on first access with its
\* default options, and no retry call under way.
InitBreaker ==
  /\ state = "CLOSED"
  /\ failureCount = 0
  /\ lastFailureTime = Undefined
  /\ threshold \in 1..MaxThreshold
  /\ timeout \in 1..MaxTimeout
  /\ now \in 0..1
  /\ nextCall = 0
  /\ callPc = [c \in Calls |-> "idle"]
  /\ streak = 0
  /\ last = [op |-> "new", call |-> 0, pre |-> "CLOSED", fc |-> 0,
             lft |-> Undefined, at |-> 0, others |-> {}, afterReset |-> "no",
             err |-> NoError, out |-> Pending]
  /\ logs = <<>>
  /\ minLevel = LevelINFO
  /\ sinks = [console |-> TRUE, file |-> FALSE, filePath |-> DefaultFilePath]
  /\ created = 1
  /\ consoleLines = <<>>
  /\ fileLines = <<>>
  /\ logCalls = 0
  /\ lastLog = NoLogCall
  /\ subject = NoError
  /\ verdict = NoVerdict
  /\ opts = DEFAULT_RETRY_OPTIONS
  /\ rpc = "idle"
  /\ attempt = 0
  /\ lastError = NoError
  /\ outcome = Pending
  /\ running = 0
  /\ trace = <<>>
  /\ slept = 0
  /\ delay = 0
  /\ wrap = NoWrap
  /\ gcall = NoGracefulCall
  /\ gpc = <<>>
  /\ gresults = <<>>
  /\ gorder = <<>>
  /\ goutcome = Pending
  /\ gtimer = "off"
  /\ browser = "null"
  /\ page = "null"
  /\ checkPc = "idle"
  /\ checkers = <<>>
  /\ checkResult = Pending
  /\ checkOutcome = Pending
  /\ closePc = "none"

NextBreaker ==
  \/ ExecuteRejected
  \/ ExecuteAdmitted
  \/ \E c \in Calls : ExecuteSucceeds(c)
  \/ \E c \in Calls, e \in BreakerErrors : ExecuteFails(c, e)
  \/ Reset
  \/ Tick

SpecBreaker == InitBreaker /\ [][NextBreaker]_vars

----------------------------------------------------------------------------
(* The taxonomy on its own: one thrown value is classified *)

\* categorizeError is applied to the value, and again to its result, and the
\* default predicate is asked whether the value is to be retried.
Classify ==
  /\ ~verdict.done
  /\ verdict' = [done |-> TRUE,
                 once |-> categorizeError(subject),
                 twice |-> categorizeError(categorizeError(subject)),
                 retry |-> defaultShouldRetry(subject, attempt),
                 attempt |-> attempt]
  /\ UNCHANGED <<cbVars, logVars, subject, retryVars, gVars, seoVars>>

InitClassify ==
  /\ state = "CLOSED"
  /\ failureCount = 0
  /\ lastFailureTime = Undefined
  /\ threshold = 1
  /\ timeout = 1
  /\ now = 0
  /\ nextCall = 0
  /\ callPc = [c \in Calls |-> "idle"]
  /\ streak = 0
  /\ last = [op |-> "new", call |-> 0, pre |-> "CLOSED", fc |-> 0,
             lft |-> Undefined, at |-> 0, others |-> {}, afterReset |-> "no",
             err |-> NoError, out |-> Pending]
  /\ logs = <<>>
  /\ minLevel = LevelINFO
  /\ sinks = [console |-> TRUE, file |-> FALSE, filePath |-> DefaultFilePath]
  /\ created = 1
  /\ consoleLines = <<>>
  /\ fileLines = <<>>
  /\ logCalls = 0
  /\ lastLog = NoLogCall
  /\ subject \in Throwables
  /\ verdict = NoVerdict
  /\ opts = DEFAULT_RETRY_OPTIONS
  /\ rpc = "idle"
  /\ attempt \in 1..MaxAttempts
  /\ lastError = NoError
  /\ outcome = Pending
  /\ running = 0
  /\ trace = <<>>
  /\ slept = 0
  /\ delay = 0
  /\ wrap = NoWrap
  /\ gcall = NoGracefulCall
  /\ gpc = <<>>
  /\ gresults = <<>>
  /\ gorder = <<>>
  /\ goutcome = Pending
  /\ gtimer = "off"
  /\ browser = "null"
  /\ page = "null"
  /\ checkPc = "idle"
  /\ checkers = <<>>
  /\ checkResult = Pending
  /\ checkOutcome = Pending
  /\ closePc = "none"

NextClassify == Classify

SpecClassify == InitClassify /\ [][NextClassify]_vars

----------------------------------------------------------------------------
(* The logger on its own (logger.ts) *)

\* The options the model follows, and the constructor's defaults for them.
OptionKeys == {"minLevel", "console", "file", "filePath"}
DefaultOptions == [minLevel |-> LevelINFO, console |-> TRUE, file |-> FALSE,
                   filePath |-> DefaultFilePath]

\* this.options
Options == [minLevel |-> minLevel, console |-> sinks.console, file |-> sinks.file,
            filePath |-> sinks.filePath]

\* The options objects callers pass: none, and objects naming some options.
OptionArgs ==
  { NoOptions,
    [given |-> TRUE, set |-> ("minLevel" :> LevelDEBUG)],
    [given |-> TRUE, set |-> ("minLevel" :> LevelERROR)],
    [given |-> TRUE,
     set |-> ("console" :> FALSE @@ "file" :> TRUE @@ "filePath" :> "custom.log")] }

\* `{ ...this.options, ...options }`
Merge(cur, set) == [k \in DOMAIN cur |-> IF k \in DOMAIN set THEN set[k] ELSE cur[k]]

\* The private constructor: `options.x ?? default` for every option.
Construct(set) ==
  [k \in OptionKeys |->
     IF k \in DOMAIN set /\ ~(k = "minLevel" /\ set[k] = Undefined)
       THEN set[k] ELSE DefaultOptions[k]]

\* Variant of getErrors(): only the entries above ERROR.
getErrorsAboveError(history) ==
  SelectSeq(history, LAMBDA entry : entry.level > LevelERROR)

\* getErrors(): the entries at ERROR or above.
getErrors(history) == SelectSeq(history, LAMBDA entry : entry.level >= LevelERROR)

\* The counting loop of generateErrorSummary(): how often each key occurs in
\* the list of keys.
CountBy(keys) ==
  [k \in {keys[i] : i \in DOMAIN keys} |->
     Cardinality({i \in DOMAIN keys : keys[i] = k})]

\* Variant of generateErrorSummary(): an entry without a checkName is left out
\* of byCheck.
generateErrorSummaryNamedOnly(history) ==
  LET errors == getErrors(history)
      counted == SelectSeq(errors, LAMBDA entry : entry.error /= NoError)
      named == SelectSeq(counted, LAMBDA entry : entry.error.checkName /= "undefined")
  IN  [totalErrors |-> Len(errors),
       totalLogs |-> Len(history),
       byCategory |-> CountBy([i \in DOMAIN counted |-> counted[i].error.category]),
       bySeverity |-> CountBy([i \in DOMAIN counted |-> counted[i].error.severity]),
       byCheck |-> CountBy([i \in DOMAIN named |-> named[i].error.checkName]),
       errors |-> [i \in DOMAIN errors |->
                     [message |-> errors[i].message,
                      category |-> errors[i].error.category,
                      severity |-> errors[i].error.severity,
                      checkName |-> errors[i].error.checkName]]]

\* generateErrorSummary(): the totals, the counts by category, severity and
\* check (`checkName || 'unknown'`) over the error entries that have an error
\* attached, and the list of the error entries.
generateErrorSummary(history) ==
  LET errors == getErrors(history)
      counted == SelectSeq(errors, LAMBDA entry : entry.error /= NoError)
  IN  [totalErrors |-> Len(errors),
       totalLogs |-> Len(history),
       byCategory |-> CountBy([i \in DOMAIN counted |-> counted[i].error.category]),
       bySeverity |-> CountBy([i \in DOMAIN counted |-> counted[i].error.severity]),
       byCheck |-> CountBy([i \in DOMAIN counted |->
                              IF counted[i].error.checkName = "undefined"
                                THEN "unknown" ELSE counted[i].error.checkName]),
       errors |-> [i \in DOMAIN errors |->
                     [message |-> errors[i].message,
                      category |-> errors[i].error.category,
                      severity |-> errors[i].error.severity,
                      checkName |-> errors[i].error.checkName]]]

\* The errors handed to logError: one of every severity, the CRITICAL one a
\* NetworkError of the check "meta", and one whose context was built with
\* `severity: undefined`.
LoggedErrors ==
  {Failure("SEOCheckerError", "UNKNOWN", sv, {}, "caller", 0) :
     sv \in (Severities \ {"CRITICAL"}) \cup {"undefined"}}
  \cup {[Failure("NetworkError", "NETWORK", "CRITICAL", {"network"}, "caller", 0)
          EXCEPT !.checkName = "meta"]}

\* The error handed to logRetry.
RetriedErrors == {Failure("NetworkError", "NETWORK", "CRITICAL", {"network"}, "caller", 0)}

\* A step of the logger leaves the breaker, the taxonomy and retry alone.
LoggerFrame == UNCHANGED <<cbVars, taxVars, retryVars, gVars, seoVars>>

\* Variant of getInstance: options given to a later call make a new logger.
GetInstanceReplaces(p) ==
  /\ created' = IF created = 0 \/ p.given THEN created + 1 ELSE created
  /\ LET next == IF created = 0 \/ p.given THEN Construct(p.set) ELSE Options
     IN  /\ minLevel' = next.minLevel
         /\ sinks' = [console |-> next.console, file |-> next.file,
                     filePath |-> next.filePath]
  /\ logs' = IF created = 0 \/ p.given THEN <<>> ELSE logs
  /\ lastLog' = LoggerOp("getInstance", 0, "none", p, created', 0, 0)
  /\ UNCHANGED <<consoleLines, fileLines, logCalls>>
  /\ LoggerFrame

\* ErrorLogger.getInstance(options)
GetInstance(p) ==
  /\ created' = IF created = 0 THEN 1 ELSE created
  /\ LET next == IF created = 0 THEN Construct(p.set)
                 ELSE IF p.given THEN Merge(Options, p.set) ELSE Options
     IN  /\ minLevel' = next.minLevel
         /\ sinks' = [console |-> next.console, file |-> next.file,
                     filePath |-> next.filePath]
  /\ lastLog' = LoggerOp("getInstance", 0, "none", p, created', 0, 0)
  /\ UNCHANGED <<logs, consoleLines, fileLines, logCalls>>
  /\ LoggerFrame

\* configure(options)
Configure(p) ==
  /\ created = 1
  /\ p.given
  /\ minLevel' = Merge(Options, p.set).minLevel
  /\ sinks' = [console |-> Merge(Options, p.set).console,
               file |-> Merge(Options, p.set).file,
               filePath |-> Merge(Options, p.set).filePath]
  /\ lastLog' = LoggerOp("configure", 0, "none", p, created, 0, 0)
  /\ UNCHANGED <<logs, created, consoleLines, fileLines, logCalls>>
  /\ LoggerFrame

\* The private log(level, message, error, metadata), reached through method
\* `api` of the instance: the entry is dropped, or pushed and handed to the sinks that are
\* switched on; the write to the file succeeds or fails.
Emit(api, entry, severity) ==
  /\ logCalls < MaxLogCalls
  /\ logCalls' = logCalls + 1
  /\ logs' = Log(logs, minLevel, entry)
  /\ \/ /\ fileLines' = FileAfter(fileLines, sinks, minLevel, entry.level)
        /\ consoleLines' = ConsoleAfter(consoleLines, sinks, minLevel, entry.level)
     \/ /\ fileLines' = fileLines
        /\ consoleLines' =
             FileFailureReported(ConsoleAfter(consoleLines, sinks, minLevel, entry.level),
                                 sinks, minLevel, entry.level)
  /\ lastLog' = LoggerOp(api, entry.level, severity, NoOptions, created, 0, 0)
  /\ UNCHANGED <<minLevel, sinks, created>>
  /\ LoggerFrame

\* debug(message)
Debug ==
  /\ created = 1
  /\ Emit("debug", [level |-> LevelDEBUG, message |-> "debug", error |-> NoError,
                    metadata |-> <<>>], "none")

\* info(message)
Info ==
  /\ created = 1
  /\ Emit("info", [level |-> LevelINFO, message |-> "info", error |-> NoError,
                   metadata |-> <<>>], "none")

\* logWarning(message)
LogWarning ==
  /\ created = 1
  /\ Emit("logWarning", [level |-> LevelWARN, message |-> "warning", error |-> NoError,
                         metadata |-> <<>>], "none")

\* logError(error)
LogError(e) ==
  /\ created = 1
  /\ Emit("logError", [level |-> severityToLogLevel(e.severity), message |-> e.text,
                       error |-> e, metadata |-> <<>>], e.severity)

\* logRetry(error, 1, DefaultInitialDelay)
LogRetry(e) ==
  /\ created = 1
  /\ Emit("logRetry", [level |-> LevelWARN,
                       message |-> <<"Retry attempt", 1, DefaultInitialDelay>>,
                       error |-> e, metadata |-> <<1, DefaultInitialDelay>>], e.severity)

\* generateErrorSummary()
Summarize ==
  /\ created = 1
  /\ lastLog' = LoggerOp("generateErrorSummary", 0, "none", NoOptions, created,
                         generateErrorSummary(logs).totalErrors,
                         generateErrorSummary(logs).totalLogs)
  /\ UNCHANGED <<logs, minLevel, sinks, created, consoleLines, fileLines, logCalls>>
  /\ LoggerFrame

\* Variant of clear(): the options go back to the constructor's defaults.
ClearResetsOptions ==
  /\ created = 1
  /\ logs' = <<>>
  /\ minLevel' = DefaultOptions.minLevel
  /\ sinks' = [console |-> DefaultOptions.console, file |-> DefaultOptions.file,
               filePath |-> DefaultOptions.filePath]
  /\ lastLog' = LoggerOp("clear", 0, "none", NoOptions, created, 0, 0)
  /\ UNCHANGED <<created, consoleLines, fileLines, logCalls>>
  /\ LoggerFrame

\* clear()
Clear ==
  /\ created = 1
  /\ logs' = <<>>
  /\ lastLog' = LoggerOp("clear", 0, "none", NoOptions, created, 0, 0)
  /\ UNCHANGED <<minLevel, sinks, created, consoleLines, fileLines, logCalls>>
  /\ LoggerFrame

\* The module is loaded: no instance exists yet; no breaker call, no retry
\* call and no classification is under way.
InitLogger ==
  /\ state = "CLOSED"
  /\ failureCount = 0
  /\ lastFailureTime = Undefined
  /\ threshold = 1
  /\ timeout = 1
  /\ now = 0
  /\ nextCall = 0
  /\ callPc = [c \in Calls |-> "idle"]
  /\ streak = 0
  /\ last = [op |-> "new", call |-> 0, pre |-> "CLOSED", fc |-> 0,
             lft |-> Undefined, at |-> 0, others |-> {}, afterReset |-> "no",
             err |-> NoError, out |-> Pending]
  /\ logs = <<>>
  /\ minLevel = DefaultOptions.minLevel
  /\ sinks = [console |-> DefaultOptions.console, file |-> DefaultOptions.file,
              filePath |-> DefaultOptions.filePath]
  /\ created = 0
  /\ consoleLines = <<>>
  /\ fileLines = <<>>
  /\ logCalls = 0
  /\ lastLog = NoLogCall
  /\ subject = NoError
  /\ verdict = NoVerdict
  /\ opts = DEFAULT_RETRY_OPTIONS
  /\ rpc = "idle"
  /\ attempt = 0
  /\ lastError = NoError
  /\ outcome = Pending
  /\ running = 0
  /\ trace = <<>>
  /\ slept = 0
  /\ delay = 0
  /\ wrap = NoWrap
  /\ gcall = NoGracefulCall
  /\ gpc = <<>>
  /\ gresults = <<>>
  /\ gorder = <<>>
  /\ goutcome = Pending
  /\ gtimer = "off"
  /\ browser = "null"
  /\ page = "null"
  /\ checkPc = "idle"
  /\ checkers = <<>>
  /\ checkResult = Pending
  /\ checkOutcome = Pending
  /\ closePc = "none"

NextLogger ==
  \/ \E p \in OptionArgs : GetInstance(p)
  \/ \E p \in OptionArgs : Configure(p)
  \/ Debug
  \/ Info
  \/ LogWarning
  \/ \E e \in LoggedErrors : LogError(e)
  \/ \E e \in RetriedErrors : LogRetry(e)
  \/ Summarize
  \/ Clear

SpecLogger == InitLogger /\ [][NextLogger]_vars

----------------------------------------------------------------------------
(* Graceful degradation (graceful.ts), as section 4.5 of the specification
   describes it: withGracefulDegradation, its batch and parallel forms,
   withFallback and withTimeout *)

\* The combinators: withGracefulDegradation, ...Batch, ...Parallel,
\* withFallback, withTimeout.
GracefulKinds == {"single", "batch", "parallel", "fallback", "timeout"}

\* What an operation handed to a combinator does when it settles: it returns
\* its result, throws an untyped error, or throws a BrowserError.
Plans == {"ok", "raw", "typed"}

\* The operations a call is given, by what each of them does.
PlanLists(kind) ==
  LET sizes == CASE kind \in {"single", "timeout"} -> {1}
                 [] kind = "fallback" -> {2}
                 [] OTHER -> 1..MaxEntries
  IN  UNION {[1..n -> Plans] : n \in sizes}

\* The failure operation i throws.
OpFailure(plan, i) ==
  IF plan = "raw" THEN Failure("Error", "none", "none", {"network"}, "op", i)
  ELSE Failure("BrowserError", "BROWSER", "WARNING", {"browser"}, "op", i)

\* The TimeoutError withTimeout makes when its timer fires.
TimerFailure == Failure("TimeoutError", "TIMEOUT", "ERROR", {"timeout"}, "timer", 1)

\* The failure classified and given the check's name.
Named(e) == [categorizeError(e) EXCEPT !.checkName = "check"]

\* The outcomes recorded for an operation: none yet, its own result, the
\* outcome made of its failure (passed or failed, the message with or without
\* the failure's text), and its failure kept as a failure (withFallback).
NoResult == [kind |-> "none", of |-> 0, passed |-> FALSE, details |-> {},
             error |-> NoError]

OwnResult(i) == [kind |-> "result", of |-> i, passed |-> TRUE, details |-> {},
                 error |-> NoError]

\* The outcome made of a failure.
DegradedAsFailed(e, i, call) ==
  [kind |-> "degraded", of |-> i, passed |-> FALSE,
   details |-> IF call.includeErrorDetails THEN e.text ELSE {}, error |-> NoError]
Degraded(e, i, call) ==
  [kind |-> "degraded", of |-> i, passed |-> call.passOnError,
   details |-> IF call.includeErrorDetails THEN e.text ELSE {}, error |-> NoError]

Failed(e, i) == [kind |-> "failed", of |-> i, passed |-> FALSE, details |-> {},
                 error |-> Named(e)]

\* Whether this call logs the failures it handles: withFallback always does,
\* the others when the option logError is set.
Logs(call) == call.kind = "fallback" \/ call.logError

\* A failure is classified, named and, if the call logs, logged.
Handle(e) ==
  /\ logs' = IF Logs(gcall) THEN logError(logs, minLevel, Named(e), <<>>) ELSE logs
  /\ consoleLines' =
       IF Logs(gcall)
         THEN ConsoleAfter(consoleLines, sinks, minLevel,
                           severityToLogLevel(Named(e).severity))
         ELSE consoleLines
  /\ fileLines' =
       IF Logs(gcall)
         THEN FileAfter(fileLines, sinks, minLevel,
                        severityToLogLevel(Named(e).severity))
         ELSE fileLines

\* A step of a combinator leaves everything else alone.
GracefulFrame ==
  UNCHANGED <<cbVars, minLevel, sinks, created, logCalls, lastLog, taxVars,
              retryVars, gcall, seoVars>>

\* The one operation, the next entry of a batch, the primary, or the
\* secondary after the primary has failed, is invoked.
InvokeNext(i) ==
  /\ gcall.kind \in {"single", "batch", "fallback"}
  /\ goutcome = Pending
  /\ gpc[i] = "idle"
  /\ \A j \in DOMAIN gpc : j < i => gpc[j] = "done"
  /\ gcall.kind = "fallback" => (i = 1 \/ gresults[1].kind = "failed")
  /\ gpc' = [gpc EXCEPT ![i] = "running"]
  /\ UNCHANGED <<gresults, gorder, goutcome, gtimer, logs, consoleLines, fileLines>>
  /\ GracefulFrame

\* withGracefulDegradationParallel: every entry is invoked before any settles.
InvokeAll ==
  /\ gcall.kind = "parallel"
  /\ \A i \in DOMAIN gpc : gpc[i] = "idle"
  /\ gpc' = [i \in DOMAIN gpc |-> "running"]
  /\ UNCHANGED <<gresults, gorder, goutcome, gtimer, logs, consoleLines, fileLines>>
  /\ GracefulFrame

\* withTimeout: the operation is invoked and the timer is set.
InvokeTimed ==
  /\ gcall.kind = "timeout"
  /\ gpc[1] = "idle"
  /\ gpc' = [gpc EXCEPT ![1] = "running"]
  /\ gtimer' = "armed"
  /\ UNCHANGED <<gresults, gorder, goutcome, logs, consoleLines, fileLines>>
  /\ GracefulFrame

\* Operation i returns while its result is awaited.
OpSucceedsAppending(i) ==
  /\ gpc[i] = "running"
  /\ gtimer /= "fired"
  /\ gcall.plans[i] = "ok"
  /\ gpc' = [gpc EXCEPT ![i] = "done"]
  /\ gresults' = [gresults EXCEPT ![Len(gorder) + 1] = OwnResult(i)]
  /\ gorder' = Append(gorder, i)
  /\ gtimer' = IF gtimer = "armed" THEN "off" ELSE gtimer
  /\ UNCHANGED <<goutcome, logs, consoleLines, fileLines>>
  /\ GracefulFrame

OpSucceeds(i) ==
  /\ gpc[i] = "running"
  /\ gtimer /= "fired"
  /\ gcall.plans[i] = "ok"
  /\ gpc' = [gpc EXCEPT ![i] = "done"]
  /\ gresults' = [gresults EXCEPT ![i] = OwnResult(i)]
  /\ gorder' = Append(gorder, i)
  /\ gtimer' = IF gtimer = "armed" THEN "off" ELSE gtimer
  /\ UNCHANGED <<goutcome, logs, consoleLines, fileLines>>
  /\ GracefulFrame

\* Operation i throws while its result is awaited: the failure is handled and
\* becomes the entry's outcome (withFallback keeps it as a failure).
OpFails(i) ==
  /\ gpc[i] = "running"
  /\ gtimer /= "fired"
  /\ gcall.plans[i] /= "ok"
  /\ gpc' = [gpc EXCEPT ![i] = "done"]
  /\ Handle(OpFailure(gcall.plans[i], i))
  /\ gresults' =
       [gresults EXCEPT ![i] =
          IF gcall.kind = "fallback" THEN Failed(OpFailure(gcall.plans[i], i), i)
          ELSE Degraded(OpFailure(gcall.plans[i], i), i, gcall)]
  /\ gorder' = Append(gorder, i)
  /\ gtimer' = IF gtimer = "armed" THEN "off" ELSE gtimer
  /\ UNCHANGED goutcome
  /\ GracefulFrame

\* withTimeout: the timer fires before the operation has settled; the
\* TimeoutError made for it is handled like a failure of the operation, and
\* the operation goes on running.
TimerFires ==
  /\ gtimer = "armed"
  /\ gpc[1] = "running"
  /\ gtimer' = "fired"
  /\ Handle(TimerFailure)
  /\ gresults' = [gresults EXCEPT ![1] = Degraded(TimerFailure, 1, gcall)]
  /\ UNCHANGED <<gpc, gorder, goutcome>>
  /\ GracefulFrame

\* withTimeout: the operation settles after the timer has fired; nobody is
\* waiting for it any more.
OpSettlesLateOverwrites ==
  /\ gtimer = "fired"
  /\ gpc[1] = "running"
  /\ gpc' = [gpc EXCEPT ![1] = "done"]
  /\ gorder' = Append(gorder, 1)
  /\ gresults' = [gresults EXCEPT ![1] = OwnResult(1)]
  /\ goutcome' = IF goutcome = Pending THEN goutcome ELSE Returned(OwnResult(1))
  /\ UNCHANGED <<gtimer, logs, consoleLines, fileLines>>
  /\ GracefulFrame

OpSettlesLate ==
  /\ gtimer = "fired"
  /\ gpc[1] = "running"
  /\ gpc' = [gpc EXCEPT ![1] = "done"]
  /\ gorder' = Append(gorder, 1)
  /\ UNCHANGED <<gresults, goutcome, gtimer, logs, consoleLines, fileLines>>
  /\ GracefulFrame

\* What the call settles with once the outcomes it needs are there.
SettlementRaisingPrimary(call, results) ==
  CASE call.kind \in {"single", "timeout"} -> Returned(results[1])
    [] call.kind \in {"batch", "parallel"} -> Returned(results)
    [] call.kind = "fallback" /\ results[1].kind = "result" -> Returned(results[1])
    [] call.kind = "fallback" /\ results[2].kind = "result" -> Returned(results[2])
    [] OTHER -> Rejected(results[1].error)

Settlement(call, results) ==
  CASE call.kind \in {"single", "timeout"} -> Returned(results[1])
    [] call.kind \in {"batch", "parallel"} -> Returned(results)
    [] call.kind = "fallback" /\ results[1].kind = "result" -> Returned(results[1])
    [] call.kind = "fallback" /\ results[2].kind = "result" -> Returned(results[2])
    [] OTHER -> Rejected(results[2].error)

\* The outcomes the call waits for are all there.
Complete(call, results) ==
  CASE call.kind \in {"single", "timeout"} -> results[1] /= NoResult
    [] call.kind \in {"batch", "parallel"} ->
         \A i \in DOMAIN results : results[i] /= NoResult
    [] OTHER -> results[1].kind = "result" \/ results[2] /= NoResult

\* The combinator's promise settles.
Settle ==
  /\ gcall.kind /= "none"
  /\ goutcome = Pending
  /\ Complete(gcall, gresults)
  /\ goutcome' = Settlement(gcall, gresults)
  /\ UNCHANGED <<gpc, gresults, gorder, gtimer, logs, consoleLines, fileLines>>
  /\ GracefulFrame

\* A combinator is called with some options and operations; the logger has
\* its default options, nothing else is under way.
InitGraceful ==
  /\ state = "CLOSED"
  /\ failureCount = 0
  /\ lastFailureTime = Undefined
  /\ threshold = 1
  /\ timeout = 1
  /\ now = 0
  /\ nextCall = 0
  /\ callPc = [c \in Calls |-> "idle"]
  /\ streak = 0
  /\ last = [op |-> "new", call |-> 0, pre |-> "CLOSED", fc |-> 0,
             lft |-> Undefined, at |-> 0, others |-> {}, afterReset |-> "no",
             err |-> NoError, out |-> Pending]
  /\ logs = <<>>
  /\ minLevel = LevelINFO
  /\ sinks = [console |-> TRUE, file |-> FALSE, filePath |-> DefaultFilePath]
  /\ created = 1
  /\ consoleLines = <<>>
  /\ fileLines = <<>>
  /\ logCalls = 0
  /\ lastLog = NoLogCall
  /\ subject = NoError
  /\ verdict = NoVerdict
  /\ opts = DEFAULT_RETRY_OPTIONS
  /\ rpc = "idle"
  /\ attempt = 0
  /\ lastError = NoError
  /\ outcome = Pending
  /\ running = 0
  /\ trace = <<>>
  /\ slept = 0
  /\ delay = 0
  /\ wrap = NoWrap
  /\ gcall \in {c \in [kind : GracefulKinds, passOnError : BOOLEAN,
                       includeErrorDetails : BOOLEAN, logError : BOOLEAN,
                       plans : UNION {PlanLists(k) : k \in GracefulKinds}] :
                  c.plans \in PlanLists(c.kind)}
  /\ gpc = [i \in DOMAIN gcall.plans |-> "idle"]
  /\ gresults = [i \in DOMAIN gcall.plans |-> NoResult]
  /\ gorder = <<>>
  /\ goutcome = Pending
  /\ gtimer = "off"
  /\ browser = "null"
  /\ page = "null"
  /\ checkPc = "idle"
  /\ checkers = <<>>
  /\ checkResult = Pending
  /\ checkOutcome = Pending
  /\ closePc = "none"

NextGraceful ==
  \/ \E i \in DOMAIN gpc : InvokeNext(i)
  \/ InvokeAll
  \/ InvokeTimed
  \/ \E i \in DOMAIN gpc : OpSucceeds(i)
  \/ \E i \in DOMAIN gpc : OpFails(i)
  \/ TimerFires
  \/ OpSettlesLate
  \/ Settle

SpecGraceful == InitGraceful /\ [][NextGraceful]_vars

----------------------------------------------------------------------------
(* SEOChecker: check() and close() *)

\* The checkers whose checkAll() check() hands to Promise.all.
Checkers == 1..MaxCheckers

\* What launch, navigation and the checkers throw when they fail.
SeoFailure(where, i) == Failure("Error", "none", "none", {"browser"}, where, i)

\* What calling a method on null throws.
NullDereference == Failure("TypeError", "none", "none", {}, "close", 0)

\* The report check() builds from the checkers' results.
Report == "report"

\* Variant of the first statement of close(): without the test for null.
ClosePageUnguarded(p) ==
  IF p /= "null" THEN [page |-> "closed", threw |-> FALSE]
  ELSE [page |-> p, threw |-> TRUE]

\* close(): if (this.page) await this.page.close(); closing a page that is
\* closed already resolves.
ClosePage(p) ==
  IF p /= "null" THEN [page |-> "closed", threw |-> FALSE]
  ELSE [page |-> p, threw |-> FALSE]

\* close(): if (this.browser) await this.browser.close()
CloseBrowser(b) == IF b /= "null" THEN "closed" ELSE b

\* A step of the checker leaves everything else alone.
SeoFrame == UNCHANGED <<cbVars, logVars, taxVars, retryVars, gVars>>

\* check() is called: launch() awaits chromium.launch().
Check ==
  /\ checkPc = "idle"
  /\ checkPc' = "launch"
  /\ UNCHANGED <<browser, page, checkers, checkResult, checkOutcome, closePc>>
  /\ SeoFrame

\* chromium.launch() resolves: launch() awaits browser.newPage().
LaunchResolves ==
  /\ checkPc = "launch"
  /\ browser' = "open"
  /\ checkPc' = "newPage"
  /\ UNCHANGED <<page, checkers, checkResult, checkOutcome, closePc>>
  /\ SeoFrame

\* chromium.launch() rejects: the finally clause calls close().
LaunchRejects ==
  /\ checkPc = "launch"
  /\ checkResult' = Rejected(SeoFailure("launch", 0))
  /\ checkPc' = "closePage"
  /\ UNCHANGED <<browser, page, checkers, checkOutcome, closePc>>
  /\ SeoFrame

\* browser.newPage() resolves: the default timeout is set and navigate()
\* awaits page.goto().
NewPageResolves ==
  /\ checkPc = "newPage"
  /\ page' = "open"
  /\ checkPc' = "navigate"
  /\ UNCHANGED <<browser, checkers, checkResult, checkOutcome, closePc>>
  /\ SeoFrame

\* browser.newPage() rejects: the finally clause calls close().
NewPageRejects ==
  /\ checkPc = "newPage"
  /\ checkResult' = Rejected(SeoFailure("newPage", 0))
  /\ checkPc' = "closePage"
  /\ UNCHANGED <<browser, page, checkers, checkOutcome, closePc>>
  /\ SeoFrame

\* page.goto() resolves: every checker's checkAll() is called and
\* Promise.all is awaited.
NavigateResolves ==
  /\ checkPc = "navigate"
  /\ checkers' = [i \in Checkers |-> "running"]
  /\ checkPc' = "checking"
  /\ UNCHANGED <<browser, page, checkResult, checkOutcome, closePc>>
  /\ SeoFrame

\* page.goto() rejects: the finally clause calls close().
NavigateRejects ==
  /\ checkPc = "navigate"
  /\ checkResult' = Rejected(SeoFailure("goto", 0))
  /\ checkPc' = "closePage"
  /\ UNCHANGED <<browser, page, checkers, checkOutcome, closePc>>
  /\ SeoFrame

\* A checker's checkAll() resolves.
CheckerResolves(i) ==
  /\ checkers[i] = "running"
  /\ checkers' = [checkers EXCEPT ![i] = "ok"]
  /\ UNCHANGED <<browser, page, checkPc, checkResult, checkOutcome, closePc>>
  /\ SeoFrame

\* A checker's checkAll() rejects; the first rejection is the one Promise.all
\* rejects with.
CheckerRejects(i) ==
  /\ checkers[i] = "running"
  /\ checkers' = [checkers EXCEPT ![i] = "failed"]
  /\ checkResult' = IF checkPc = "checking" /\ checkResult = Pending
                      THEN Rejected(SeoFailure("checker", i))
                      ELSE checkResult
  /\ UNCHANGED <<browser, page, checkPc, checkOutcome, closePc>>
  /\ SeoFrame

\* Promise.all has resolved: the report is built and the finally clause
\* calls close().
ChecksResolved ==
  /\ checkPc = "checking"
  /\ \A i \in Checkers : checkers[i] = "ok"
  /\ checkResult' = Returned(Report)
  /\ checkPc' = "closePage"
  /\ UNCHANGED <<browser, page, checkers, checkOutcome, closePc>>
  /\ SeoFrame

\* Promise.all has rejected: the finally clause calls close(), whatever the
\* other checkers are doing.
ChecksRejected ==
  /\ checkPc = "checking"
  /\ checkResult.kind = "rejected"
  /\ checkPc' = "closePage"
  /\ UNCHANGED <<browser, page, checkers, checkResult, checkOutcome, closePc>>
  /\ SeoFrame

\* close() called by the finally clause: the page.
CheckClosesPage ==
  /\ checkPc = "closePage"
  /\ page' = ClosePage(page).page
  /\ IF ClosePage(page).threw
       THEN /\ checkResult' = Rejected(NullDereference)
            /\ checkPc' = "closed"
       ELSE /\ checkPc' = "closeBrowser"
            /\ UNCHANGED checkResult
  /\ UNCHANGED <<browser, checkers, checkOutcome, closePc>>
  /\ SeoFrame

\* close() called by the finally clause: the browser.
CheckClosesBrowser ==
  /\ checkPc = "closeBrowser"
  /\ browser' = CloseBrowser(browser)
  /\ checkPc' = "closed"
  /\ UNCHANGED <<page, checkers, checkResult, checkOutcome, closePc>>
  /\ SeoFrame

\* close() has returned: the promise of check() settles with what the try
\* block ended with.
CheckSettles ==
  /\ checkPc = "closed"
  /\ checkOutcome' = checkResult
  /\ checkPc' = "done"
  /\ UNCHANGED <<browser, page, checkers, checkResult, closePc>>
  /\ SeoFrame

\* The caller calls close() after check() has finished.
Close ==
  /\ checkPc = "done"
  /\ closePc = "none"
  /\ closePc' = "closePage"
  /\ UNCHANGED <<browser, page, checkPc, checkers, checkResult, checkOutcome>>
  /\ SeoFrame

\* close() called by the caller: the page.
ClosesPage ==
  /\ closePc = "closePage"
  /\ page' = ClosePage(page).page
  /\ closePc' = IF ClosePage(page).threw THEN "rejected" ELSE "closeBrowser"
  /\ UNCHANGED <<browser, checkPc, checkers, checkResult, checkOutcome>>
  /\ SeoFrame

\* close() called by the caller: the browser; close() returns.
ClosesBrowser ==
  /\ closePc = "closeBrowser"
  /\ browser' = CloseBrowser(browser)
  /\ closePc' = "returned"
  /\ UNCHANGED <<page, checkPc, checkers, checkResult, checkOutcome>>
  /\ SeoFrame

\* new SEOChecker(options); the breaker, the logger and the retry executor
\* are not in use.
InitChecker ==
  /\ state = "CLOSED"
  /\ failureCount = 0
  /\ lastFailureTime = Undefined
  /\ threshold = 1
  /\ timeout = 1
  /\ now = 0
  /\ nextCall = 0
  /\ callPc = [c \in Calls |-> "idle"]
  /\ streak = 0
  /\ last = [op |-> "new", call |-> 0, pre |-> "CLOSED", fc |-> 0,
             lft |-> Undefined, at |-> 0, others |-> {}, afterReset |-> "no",
             err |-> NoError, out |-> Pending]
  /\ logs = <<>>
  /\ minLevel = LevelINFO
  /\ sinks = [console |-> TRUE, file |-> FALSE, filePath |-> DefaultFilePath]
  /\ created = 1
  /\ consoleLines = <<>>
  /\ fileLines = <<>>
  /\ logCalls = 0
  /\ lastLog = NoLogCall
  /\ subject = NoError
  /\ verdict = NoVerdict
  /\ opts = DEFAULT_RETRY_OPTIONS
  /\ rpc = "idle"
  /\ attempt = 0
  /\ lastError = NoError
  /\ outcome = Pending
  /\ running = 0
  /\ trace = <<>>
  /\ slept = 0
  /\ delay = 0
  /\ wrap = NoWrap
  /\ gcall = NoGracefulCall
  /\ gpc = <<>>
  /\ gresults = <<>>
  /\ gorder = <<>>
  /\ goutcome = Pending
  /\ gtimer = "off"
  /\ browser = "null"
  /\ page = "null"
  /\ checkPc = "idle"
  /\ checkers = [i \in Checkers |-> "idle"]
  /\ checkResult = Pending
  /\ checkOutcome = Pending
  /\ closePc = "none"

NextChecker ==
  \/ Check
  \/ LaunchResolves
  \/ LaunchRejects
  \/ NewPageResolves
  \/ NewPageRejects
  \/ NavigateResolves
  \/ NavigateRejects
  \/ \E i \in Checkers : CheckerResolves(i)
  \/ \E i \in Checkers : CheckerRejects(i)
  \/ ChecksResolved
  \/ ChecksRejected
  \/ CheckClosesPage
  \/ CheckClosesBrowser
  \/ CheckSettles
  \/ Close
  \/ ClosesPage
  \/ ClosesBrowser

SpecChecker == InitChecker /\ [][NextChecker]_vars

----------------------------------------------------------------------------
(* Circuit breaker: properties *)

\* C1: from CLOSED with failureCount 0 the breaker is OPEN exactly when
\* `threshold` operation failures have completed with no success in between:
\* fewer leave it CLOSED, the threshold-th opens it, and failureCount is the
\* length of the current run of failures (a success restarts it from 0).
C1_OpensAtThreshold ==
  /\ failureCount = streak
  /\ (streak < threshold => state = "CLOSED")
  /\ (state = "CLOSED" => streak < threshold)
  /\ (last.op = "fail" /\ streak = threshold => state = "OPEN")

C1_Witness ==
  /\ last.op = "fail" /\ last.pre = "CLOSED"
  /\ threshold = 2 /\ streak = 2 /\ state = "OPEN"

\* C2: an execute call made while OPEN, less than `timeout` after
\* lastFailureTime, is rejected and its operation is never invoked.
C2_RejectedWhileCooling ==
  (last.op = "execute" /\ last.pre = "OPEN" /\ last.lft /= Undefined
     /\ last.at - last.lft < timeout)
  => (callPc[last.call] = "rejected" /\ state = "OPEN")

C2_Witness ==
  /\ last.op = "execute" /\ last.pre = "OPEN" /\ last.lft > 0
  /\ last.at - last.lft < timeout
  /\ callPc[last.call] = "rejected"

\* C3 as stated: an execute call made while OPEN at a time with
\* now - lastFailureTime >= timeout moves the breaker to HALF_OPEN and
\* invokes the operation.
C3_AdmittedAtOrAfterTimeout ==
  (last.op = "execute" /\ last.pre = "OPEN" /\ last.lft /= Undefined
     /\ last.at - last.lft >= timeout)
  => (state = "HALF_OPEN" /\ callPc[last.call] = "running")

\* C3 amended: an execute call made while OPEN with a non-zero
\* lastFailureTime and now - lastFailureTime > timeout (strictly after the
\* timeout) moves the breaker to HALF_OPEN and invokes the operation.
C3_AdmittedAfterTimeout ==
  (last.op = "execute" /\ last.pre = "OPEN" /\ last.lft /= Undefined
     /\ last.lft /= 0 /\ last.at - last.lft > timeout)
  => (state = "HALF_OPEN" /\ callPc[last.call] = "running")

C3_Witness ==
  /\ last.op = "execute" /\ last.pre = "OPEN" /\ last.lft > 0
  /\ last.at - last.lft > timeout
  /\ state = "HALF_OPEN" /\ callPc[last.call] = "running"

\* C4: a probe that completes in HALF_OPEN with no other call in flight ends
\* CLOSED with failureCount 0 if it succeeded, and OPEN with failureCount
\* one higher and lastFailureTime the time of the failure if it failed.
C4_ProbeOutcome ==
  (last.op \in {"succeed", "fail"} /\ last.pre = "HALF_OPEN" /\ last.others = {})
  => IF last.op = "succeed"
       THEN state = "CLOSED" /\ failureCount = 0
       ELSE /\ state = "OPEN"
            /\ failureCount = last.fc + 1
            /\ lastFailureTime = last.at

C4_Witness ==
  /\ last.op = "fail" /\ last.pre = "HALF_OPEN" /\ last.others = {}
  /\ state = "OPEN" /\ lastFailureTime > last.lft

\* C5: reset() leaves the breaker CLOSED with failureCount 0 and
\* lastFailureTime cleared, and the execute call that follows it invokes its
\* operation.
C5_Reset ==
  /\ (last.op = "reset"
        => state = "CLOSED" /\ failureCount = 0 /\ lastFailureTime = Undefined)
  /\ (last.op = "execute" /\ last.afterReset /= "no"
        => callPc[last.call] = "running")

C5_Witness ==
  /\ last.op = "execute" /\ last.afterReset = "OPEN"
  /\ callPc[last.call] = "running" /\ state = "CLOSED"

----------------------------------------------------------------------------
(* Retry executor: properties *)

\* The positions of the trace that hold an event of the given name.
Evs(name) == {i \in DOMAIN trace : trace[i].ev = name}
Count(name) == Cardinality(Evs(name))
HasEv(name, k) == \E i \in Evs(name) : trace[i].k = k

C7_ReturnsOnSuccess ==
  \A i \in Evs("resolve") :
    /\ i = Len(trace)
    /\ rpc = "returned"
    /\ outcome = Returned(trace[i].k)
    /\ Count("invoke") = trace[i].k
    /\ Count("onRetry") = trace[i].k - 1
    /\ Count("sleep") = trace[i].k - 1
    /\ Count("logError") = 0

C7_Witness ==
  /\ rpc = "returned" /\ outcome = Returned(3) /\ Count("logRetry") = 2

LoggedOnceBeforePropagation ==
  /\ Count("logError") = 1
  /\ trace[Len(trace)].ev = "logError"
  /\ trace[Len(trace)].k = attempt
  /\ trace[Len(trace)].err = categorizeError(outcome.error)
  /\ Count("logRetry") = attempt - 1
  /\ \A i \in Evs("reject") :
        trace[i].k < attempt
        => /\ HasEv("logRetry", trace[i].k)
           /\ outcome.error /= trace[i].err
           /\ logs[trace[i].k].level = LevelWARN

----------------------------------------------------------------------------
(* Backoff: properties *)

\* min(initialDelay * backoffMultiplier^(attempt-1), maxDelay) of the options drawn.
JitterFreeDelay ==
  Min(opts.initialDelay * Pow(opts.backoffMultiplier, attempt - 1), opts.maxDelay)

\* C10: for integer options and every attempt, the delay without jitter is
\* min(initialDelay * backoffMultiplier^(attempt-1), maxDelay), so never above
\* maxDelay, and the delay with jitter lies in [base, 1.25 * base] for that
\* jitter-free value base.
C10_BackoffBounds ==
  rpc = "calculated"
  => IF opts.jitter
       THEN JitterFreeDelay <= delay /\ 4 * delay <= 5 * JitterFreeDelay
       ELSE delay = JitterFreeDelay /\ delay <= opts.maxDelay

C10_Witness ==
  /\ rpc = "calculated" /\ opts.jitter /\ attempt = 3
  /\ opts.initialDelay * Pow(opts.backoffMultiplier, attempt - 1) > opts.maxDelay
  /\ delay > JitterFreeDelay

----------------------------------------------------------------------------
(* Retry executor: the default predicate and the wrapper *)

\* Scenario A's options: the defaults with jitter switched off.
ScenarioAOptions == [DEFAULT_RETRY_OPTIONS EXCEPT !.jitter = FALSE]

\* Scenario A's run: attempts 1 and 2 failed with a network-flavoured message
\* and attempt 3 succeeded.
ScenarioARun ==
  /\ opts = ScenarioAOptions
  /\ minLevel = LevelINFO
  /\ HasEv("resolve", 3)
  /\ \A i \in Evs("reject") : "network" \in trace[i].err.text

\* C11: Scenario A (maxAttempts 3, initialDelay 1000, backoffMultiplier 2, no
\* jitter, default predicate and logger; network-flavoured failures on
\* attempts 1 and 2, success on attempt 3) yields the success value, sleeps
\* 1000 ms then 2000 ms, 3000 ms in total, and leaves exactly two WARN entries
\* and no entry at ERROR or above in the log.
C11_ScenarioA ==
  ScenarioARun =>
    /\ outcome = Returned(3)
    /\ Count("invoke") = 3
    /\ \A i \in Evs("sleep") : trace[i].d = IF trace[i].k = 1 THEN 1000 ELSE 2000
    /\ {trace[i].k : i \in Evs("wake")} = {1, 2} /\ Count("wake") = 2
    /\ slept = 3000
    /\ Cardinality({j \in DOMAIN logs : logs[j].level = LevelWARN}) = 2
    /\ \A j \in DOMAIN logs : logs[j].level < LevelERROR
    /\ Len(logs) = 2

C11_Witness ==
  /\ ScenarioARun /\ rpc = "returned" /\ slept = 3000 /\ Len(logs) = 2

\* C12 as stated: the default shouldRetry returns true for every failure whose
\* category is NETWORK or TIMEOUT, at every attempt, whatever its text and
\* however the categorized error was constructed.
C12_NetworkAndTimeoutAlwaysRetried ==
  (verdict.done /\ verdict.once.category \in {"NETWORK", "TIMEOUT"}) => verdict.retry

\* The failures the attempts of the call have thrown so far.
ThrownSoFar == {trace[i].err : i \in Evs("reject")}

\* C13 as stated: under the default shouldRetry an operation that always
\* fails with a BROWSER-category failure without a retryable status code is
\* invoked exactly min(2, maxAttempts) times, and one that fails with a failure
\* in none of NETWORK, TIMEOUT, BROWSER and without such a code exactly once.
C13_BrowserRetriedOnce ==
  (opts.callbacks = "default" /\ rpc = "rejected" /\ ThrownSoFar /= {}) =>
    /\ (\A e \in ThrownSoFar :
          categorizeError(e).category = "BROWSER" /\ "status" \notin e.text)
        => Count("invoke") = Min(2, opts.maxAttempts)
    /\ (\A e \in ThrownSoFar :
          /\ categorizeError(e).category \notin {"NETWORK", "TIMEOUT", "BROWSER"}
          /\ "status" \notin e.text)
        => Count("invoke") = 1

\* The failure propagated is a categorized error produced by the last attempt
\* made, and its context names the check, the url and the attempts before it.
PropagatesEnriched ==
  /\ outcome.kind = "rejected"
  /\ outcome.error.cls \notin {"Error", "undefined"}
  /\ outcome.error.category \in Categories
  /\ outcome.error.checkName = wrap.checkName
  /\ outcome.error.url = wrap.url
  /\ outcome.error.src = "fn"
  /\ outcome.error.by = Count("invoke")
  /\ outcome.error.retryCount = outcome.error.by - 1

----------------------------------------------------------------------------
(* Taxonomy: properties *)

\* C15: categorizeError is idempotent, categorizing its own result returns
\* that result, and an already categorized error is returned as it is, with
\* its class, category, severity and context untouched.
C15_CategorizeIdempotent ==
  verdict.done =>
    /\ verdict.twice = verdict.once
    /\ subject.cls /= "Error" => verdict.once = subject

C15_Witness ==
  /\ verdict.done
  /\ subject.cls = "SEOCheckerError" /\ subject.category = "VALIDATION"
  /\ subject.severity = "WARNING" /\ "timeout" \in subject.text
  /\ verdict.once = subject

\* The rules of the classification in the order the claim gives them.
RuleOrder ==
  << [pattern |-> "timeout", category |-> "TIMEOUT", cls |-> "TimeoutError"],
     [pattern |-> "network", category |-> "NETWORK", cls |-> "NetworkError"],
     [pattern |-> "browser", category |-> "BROWSER", cls |-> "BrowserError"],
     [pattern |-> "config", category |-> "CONFIGURATION",
      cls |-> "ConfigurationError"] >>

\* The rules a text matches.
Matching(text) == {i \in DOMAIN RuleOrder : RuleOrder[i].pattern \in text}

\* C16: a raw failure is classified by the first of the rules TIMEOUT,
\* NETWORK, BROWSER, CONFIGURATION that its message matches, as UNKNOWN when
\* it matches none, and always with severity ERROR.
C16_FirstMatchWins ==
  (verdict.done /\ subject.cls = "Error") =>
    /\ verdict.once.severity = "ERROR"
    /\ verdict.once.text = subject.text
    /\ Matching(subject.text) = {} =>
         /\ verdict.once.category = "UNKNOWN"
         /\ verdict.once.cls = "SEOCheckerError"
    /\ \A i \in Matching(subject.text) :
         (\A j \in Matching(subject.text) : i <= j) =>
           /\ verdict.once.category = RuleOrder[i].category
           /\ verdict.once.cls = RuleOrder[i].cls

C16_Witness ==
  /\ verdict.done /\ subject.cls = "Error"
  /\ subject.text = {"network", "browser", "config"}
  /\ verdict.once.category = "NETWORK" /\ verdict.once.severity = "ERROR"

----------------------------------------------------------------------------
(* Logger: properties *)

\* C17: a log call whose level is below the minLevel in force changes
\* nothing, the history, the console and the file are as before; a call at
\* or above minLevel appends exactly one entry, of that level, to the history.
C17_BelowMinLevelDropped ==
  [][ logCalls' = logCalls + 1 =>
        IF lastLog'.level < minLevel
          THEN /\ logs' = logs
               /\ consoleLines' = consoleLines
               /\ fileLines' = fileLines
          ELSE /\ Len(logs') = Len(logs) + 1
               /\ SubSeq(logs', 1, Len(logs)) = logs
               /\ logs'[Len(logs')].level = lastLog'.level ]_vars

C17_Witness ==
  /\ logCalls = 2 /\ lastLog.op = "logError" /\ lastLog.level < minLevel
  /\ Len(logs) = 1 /\ logs[1].level = minLevel /\ Len(consoleLines) = 1

\* C18: the summary's totalErrors is the number of retained entries at ERROR
\* or above and its totalLogs the number of retained entries, whatever
\* logging, configuring and clearing came before.
C18_SummaryTotals ==
  lastLog.op = "generateErrorSummary" =>
    /\ lastLog.totalErrors =
         Cardinality({i \in DOMAIN logs : logs[i].level >= LevelERROR})
    /\ lastLog.totalLogs = Len(logs)

C18_Witness ==
  /\ lastLog.op = "generateErrorSummary"
  /\ lastLog.totalErrors = 1 /\ lastLog.totalLogs = 2
  /\ logs[2].level = LevelERROR

\* The level the claim gives for a severity.
LevelOfSeverity(severity) ==
  IF severity = "CRITICAL" THEN LevelCRITICAL
  ELSE IF severity = "ERROR" THEN LevelERROR
  ELSE IF severity = "WARNING" THEN LevelWARN
  ELSE LevelINFO

\* C19: logError logs at the level of the error's severity (CRITICAL at
\* CRITICAL, ERROR at ERROR, WARNING at WARN, INFO and any other value at
\* INFO); logRetry logs at WARN whatever the error's severity.
C19_LevelOfLoggedError ==
  /\ lastLog.op = "logError" => lastLog.level = LevelOfSeverity(lastLog.severity)
  /\ lastLog.op = "logRetry" => lastLog.level = LevelWARN
  /\ (lastLog.op \in {"logError", "logRetry"} /\ lastLog.level >= minLevel)
       => /\ logs /= <<>>
          /\ logs[Len(logs)].level = lastLog.level
          /\ logs[Len(logs)].error.severity = lastLog.severity

C19_Witness ==
  /\ lastLog.op = "logError" /\ lastLog.severity = "undefined"
  /\ Len(logs) = 2 /\ logs[2].level = LevelINFO
  /\ logs[1].level = LevelWARN /\ logs[1].error.severity = "CRITICAL"

\* C20: every getInstance call returns the one logger; a later call with
\* options sets the options it names and keeps the others, and keeps the
\* history; the history becomes empty only by clear().
C20_SingletonMerge ==
  [][ /\ created' <= 1
      /\ lastLog'.op = "getInstance" => lastLog'.instance = 1
      /\ (lastLog'.op = "getInstance" /\ created = 1) =>
           /\ logs' = logs
           /\ \A k \in OptionKeys :
                Options'[k] = IF k \in DOMAIN lastLog'.arg.set
                                THEN lastLog'.arg.set[k] ELSE Options[k]
      /\ (logs /= <<>> /\ logs' = <<>>) => lastLog'.op = "clear" ]_vars

C20_Witness ==
  /\ lastLog.op = "getInstance" /\ "minLevel" \in DOMAIN lastLog.arg.set
  /\ minLevel = LevelERROR /\ sinks.file /\ ~sinks.console
  /\ Len(logs) = 2 /\ logs[1].level = LevelINFO

\* C21: clear() empties the history and changes nothing else, minLevel, the
\* sink switches and filePath are as before, nothing is written; and a log
\* call made right after clear() is filtered and emitted as the options set
\* before clear() say.
C21_ClearOnlyEmptiesHistory ==
  [][ /\ lastLog'.op = "clear" =>
           /\ logs' = <<>>
           /\ Options' = Options
           /\ UNCHANGED <<created, consoleLines, fileLines, logCalls>>
      /\ (lastLog.op = "clear" /\ logCalls' = logCalls + 1) =>
           /\ Options' = Options
           /\ Len(logs') = IF lastLog'.level < minLevel THEN 0 ELSE 1
           /\ (lastLog'.level >= minLevel /\ sinks.console)
                => Len(consoleLines') > Len(consoleLines)
           /\ (lastLog'.level < minLevel \/ ~sinks.file) => fileLines' = fileLines
           /\ Len(fileLines') > Len(fileLines)
                => (lastLog'.level >= minLevel /\ sinks.file) ]_vars

C21_Witness ==
  /\ lastLog.op = "clear" /\ logs = <<>> /\ logCalls = 1
  /\ minLevel = LevelERROR /\ sinks.file /\ sinks.filePath = "custom.log"
  /\ Len(fileLines) = 1

\* C22: with the file sink on, a failed write to the log file does not make
\* the logging call raise: the call completes, the entry is retained in the
\* history, and the failure is reported by one console.error call and
\* nowhere else.
C22_FileFailureCaught ==
  [][ (logCalls' = logCalls + 1 /\ sinks.file /\ lastLog'.level >= minLevel
         /\ fileLines' = fileLines) =>
        /\ lastLog'.op \in {"debug", "info", "logWarning", "logError", "logRetry"}
        /\ Len(logs') = Len(logs) + 1
        /\ SubSeq(logs', 1, Len(logs)) = logs
        /\ logs'[Len(logs')].level = lastLog'.level
        /\ Len(consoleLines') = Len(consoleLines) + IF sinks.console THEN 2 ELSE 1
        /\ consoleLines'[Len(consoleLines')] = "fileFailure"
        /\ SubSeq(consoleLines', 1, Len(consoleLines)) = consoleLines ]_vars

C22_Witness ==
  /\ lastLog.op = "logError" /\ lastLog.level = LevelCRITICAL
  /\ sinks.file /\ ~sinks.console
  /\ Len(logs) = 1 /\ fileLines = <<>> /\ consoleLines = <<"fileFailure">>

\* The content of an attached error that the claim lists.
ErrorContent(e) == <<e.category, e.severity, e.url, e.checkName, e.retryCount>>

\* C23 as stated: the history is append-only and its entries are never
\* mutated: after any operation other than clear() every entry retained
\* before is still at its position with the same level, message and attached
\* error content (category, severity, url, checkName, retryCount).
C23_HistoryNeverMutated ==
  [][ lastLog'.op /= "clear" =>
        \A i \in DOMAIN logs :
          /\ i \in DOMAIN logs'
          /\ logs'[i].level = logs[i].level
          /\ logs'[i].message = logs[i].message
          /\ ErrorContent(logs'[i].error) = ErrorContent(logs[i].error) ]_vars

----------------------------------------------------------------------------
(* Graceful degradation: properties *)

\* C24: withGracefulDegradation never raises to its caller.  When the
\* operation fails and passOnError is set, the call returns an outcome with
\* passed = TRUE whose message carries the failure's text if
\* includeErrorDetails is set; when passOnError is not set, the outcome has
\* passed = FALSE.  When the operation succeeds its own result is returned.
C24_GracefulNeverRaises ==
  gcall.kind = "single" =>
    /\ goutcome.kind /= "rejected"
    /\ goutcome.kind = "returned" =>
         IF gcall.plans[1] = "ok" THEN goutcome.value = OwnResult(1)
         ELSE /\ goutcome.value.kind = "degraded"
              /\ goutcome.value.passed = gcall.passOnError
              /\ gcall.includeErrorDetails =>
                   OpFailure(gcall.plans[1], 1).text \subseteq goutcome.value.details

\* Scenario C: passOnError and includeErrorDetails are set, the operation has
\* failed and the call has returned a passed outcome carrying its text.
C24_Witness ==
  /\ gcall.kind = "single"
  /\ gcall.passOnError
  /\ gcall.includeErrorDetails
  /\ gcall.plans[1] = "raw"
  /\ goutcome.kind = "returned"
  /\ goutcome.value.passed
  /\ goutcome.value.details = {"network"}

\* C25: the batch and the parallel combinator, given N entries, return N
\* outcomes, the i-th being the outcome of the i-th entry whatever the order
\* in which the entries finished, and every entry has been run, whichever of
\* the others failed.
C25_ResultsInInputOrder ==
  (gcall.kind \in {"batch", "parallel"} /\ goutcome.kind = "returned") =>
    /\ Len(goutcome.value) = Len(gcall.plans)
    /\ \A i \in DOMAIN gcall.plans :
         /\ goutcome.value[i] =
              IF gcall.plans[i] = "ok" THEN OwnResult(i)
              ELSE Degraded(OpFailure(gcall.plans[i], i), i, gcall)
         /\ \E k \in DOMAIN gorder : gorder[k] = i

\* Scenario D, with the entries finishing in the reverse of their input
\* order: the second of three parallel entries fails, the others succeed.
C25_Witness ==
  /\ gcall.kind = "parallel"
  /\ gcall.plans = <<"ok", "raw", "ok">>
  /\ gorder = <<3, 2, 1>>
  /\ goutcome.kind = "returned"
  /\ goutcome.value[2].kind = "degraded"

\* C26: withFallback invokes the secondary only after the primary has failed;
\* it returns the primary's result if the primary succeeds and otherwise the
\* secondary's; it raises only when both fail, and what it raises is the
\* secondary's failure, classified.
C26_FallbackOrder ==
  gcall.kind = "fallback" =>
    /\ gpc[2] /= "idle" => gresults[1].kind = "failed"
    /\ goutcome.kind = "returned" =>
         goutcome.value = IF gcall.plans[1] = "ok" THEN OwnResult(1) ELSE OwnResult(2)
    /\ goutcome.kind = "rejected" =>
         /\ gcall.plans[1] /= "ok"
         /\ gcall.plans[2] /= "ok"
         /\ goutcome.error.src = "op"
         /\ goutcome.error.by = 2
         /\ goutcome.error.text = OpFailure(gcall.plans[2], 2).text
         /\ goutcome.error.category =
              IF gcall.plans[2] = "raw" THEN "NETWORK" ELSE "BROWSER"
    /\ (gcall.plans[1] = "ok" /\ goutcome.kind /= "pending") => gpc[2] = "idle"

\* Both operations have failed and the secondary's failure has been raised.
C26_Witness ==
  /\ gcall.kind = "fallback"
  /\ gcall.plans = <<"typed", "raw">>
  /\ gorder = <<1, 2>>
  /\ goutcome.kind = "rejected"
  /\ goutcome.error.category = "NETWORK"

\* C27: withTimeout returns the operation's own outcome if the operation
\* finishes before the timer, and the timeout outcome (the graceful policy
\* applied to a TimeoutError) if the timer fires first; the operation is not
\* cancelled then, it can still run to its end, and its late result or
\* failure never changes the outcome the call has settled with.
C27_TimeoutRace ==
  /\ [](gcall.kind = "timeout" =>
          /\ goutcome.kind /= "pending" =>
               goutcome =
                 Returned(IF gtimer = "fired" THEN Degraded(TimerFailure, 1, gcall)
                          ELSE IF gcall.plans[1] = "ok" THEN OwnResult(1)
                          ELSE Degraded(OpFailure(gcall.plans[1], 1), 1, gcall))
          /\ gtimer = "fired" => gpc[1] \in {"running", "done"})
  /\ [][gcall.kind = "timeout" =>
          /\ goutcome.kind /= "pending" => goutcome' = goutcome
          /\ (gtimer = "fired" /\ gpc[1] = "running" /\ gpc'[1] = "done") =>
               /\ gresults' = gresults
               /\ logs' = logs]_vars

\* The timer fired first, the call returned the timeout outcome, and the
\* operation, which fails, finished afterwards.
C27_Witness ==
  /\ gcall.kind = "timeout"
  /\ gcall.plans = <<"raw">>
  /\ gcall.includeErrorDetails
  /\ gtimer = "fired"
  /\ gorder = <<1>>
  /\ goutcome.kind = "returned"
  /\ goutcome.value.details = {"timeout"}

----------------------------------------------------------------------------
(* Circuit breaker: what it reads of a failure *)

\* C28: the circuit breaker is blind to what a failure is.  Whatever the
\* category, severity and text of the error an operation throws, the step
\* that handles it leaves state, failureCount, lastFailureTime and the log as
\* a function of the breaker's fields and the clock alone, and whether a call
\* is admitted or rejected depends on those fields alone; so two runs with
\* the same call times and the same successes and failures go through the
\* same states, counts and admit/reject decisions.
C28_BreakerBlindToErrors ==
  [][ /\ (last' /= last /\ last'.op = "fail") =>
           /\ last'.err \in BreakerErrors
           /\ failureCount' = failureCount + 1
           /\ lastFailureTime' = now
           /\ state' = IF failureCount + 1 >= threshold THEN "OPEN" ELSE state
           /\ Len(logs') = Len(logs) + IF failureCount + 1 >= threshold THEN 1 ELSE 0
           /\ \A i \in DOMAIN logs' : logs'[i].error = NoError
           /\ callPc'[last'.call] = "threw"
      /\ (last' /= last /\ last'.op = "execute") =>
           (callPc'[last'.call] = "rejected"
              <=> (state = "OPEN" /\
                   ~(Truthy(lastFailureTime) /\ now - lastFailureTime > timeout)))
    ]_vars

\* Two failures of different kinds have opened a breaker of threshold 2.
C28_Witness ==
  /\ threshold = 2
  /\ state = "OPEN"
  /\ failureCount = 2
  /\ last.op = "fail"
  /\ last.err.category = "VALIDATION"
  /\ callPc[1] = "threw"
  /\ callPc[2] = "threw"

----------------------------------------------------------------------------
(* SEOChecker: properties *)

\* C29: when the promise of check() settles, the page and the browser that
\* were opened are closed, whether launch, navigation or a checker failed or
\* all of them succeeded; and a close() called after check() has finished
\* does not fail.
C29_ClosedBeforeSettling ==
  /\ checkOutcome.kind /= "pending" =>
       /\ page /= "open"
       /\ browser /= "open"
       /\ checkOutcome = checkResult
       /\ checkOutcome.kind = "returned" => (page = "closed" /\ browser = "closed")
       /\ (checkOutcome.kind = "rejected" /\ checkOutcome.error.src /= "launch")
            => browser = "closed"
       /\ (checkOutcome.kind = "rejected"
            /\ checkOutcome.error.src \in {"goto", "checker"}) => page = "closed"
  /\ closePc /= "rejected"

\* A checker failed while another was still running; check() rejected with
\* the page and the browser closed, and close() was called again and returned.
C29_Witness ==
  /\ checkOutcome.kind = "rejected"
  /\ checkOutcome.error.src = "checker"
  /\ \E i \in Checkers : checkers[i] = "running"
  /\ page = "closed"
  /\ browser = "closed"
  /\ closePc = "returned"

----------------------------------------------------------------------------
(* Retry executor: the steps between two attempts *)

\* The onRetry call recorded at position i of the trace threw.
Threw(i) == i < Len(trace) /\ trace[i + 1].ev = "callbackThrew"

\* Some onRetry call of this retry call threw.
OnRetryThrew == \E i \in Evs("onRetry") : Threw(i)

\* The retry call has finished.
Finished == rpc \in {"returned", "rejected"}

\* The onRetry call at position i of the trace is the only one for its
\* attempt; it got the failure of that attempt, the attempt number and the
\* delay just computed, after the predicate had asked for a retry.
CalledOnceWithFailure(i) ==
  /\ i > 2
  /\ trace[i - 2].ev = "reject"
  /\ trace[i - 2].k = trace[i].k
  /\ trace[i - 1].ev = "shouldRetry:true"
  /\ trace[i - 1].k = trace[i].k
  /\ trace[i].err = trace[i - 2].err
  /\ trace[i].k < opts.maxAttempts
  /\ \A j \in Evs("onRetry") : trace[j].k = trace[i].k => j = i

\* After the onRetry call at position i: the retry is logged with the same
\* attempt and delay, the call sleeps for that delay, and only after waking
\* is the next attempt started.
ThenLogsSleepsAndRetries(i) ==
  /\ i + 2 <= Len(trace)
  /\ trace[i + 1].ev = "logRetry"
  /\ trace[i + 1].k = trace[i].k
  /\ trace[i + 1].d = trace[i].d
  /\ \E l \in DOMAIN logs :
        logs[l].level = LevelWARN /\ logs[l].metadata = <<trace[i].k, trace[i].d>>
  /\ trace[i + 2].ev = "sleep"
  /\ trace[i + 2].k = trace[i].k
  /\ trace[i + 2].d = trace[i].d
  /\ i + 3 <= Len(trace) =>
        (trace[i + 3].ev = "wake" /\ trace[i + 3].k = trace[i].k
           /\ trace[i + 3].d = trace[i].d)
  /\ i + 4 <= Len(trace) =>
        (trace[i + 4].ev = "invoke" /\ trace[i + 4].k = trace[i].k + 1)

----------------------------------------------------------------------------
(* Circuit breaker: overlapping calls *)

\* C31: apart from reset(), the breaker leaves OPEN only by moving to
\* HALF_OPEN on an execute call made after the timeout; it never goes from
\* OPEN straight to CLOSED, also when a call admitted while CLOSED completes
\* after the breaker has opened.
C31_LeavesOpenOnlyByProbe ==
  [][(state = "OPEN" /\ state' /= "OPEN") =>
       \/ last'.op = "reset"
       \/ /\ state' = "HALF_OPEN"
          /\ last'.op = "execute"
          /\ callPc'[last'.call] = "running"
          /\ now - lastFailureTime > timeout]_vars

\* C32: HALF_OPEN probes are not limited to one in flight: an execute call
\* made while the breaker is HALF_OPEN, the first probe not yet completed, has
\* its operation invoked as well; it is neither rejected nor queued, and the
\* breaker stays HALF_OPEN.
C32_ProbesNotLimited ==
  (last.op = "execute" /\ last.pre = "HALF_OPEN")
  => /\ callPc[last.call] = "running"
     /\ \A d \in last.others : callPc[d] = "running"
     /\ state = "HALF_OPEN"

\* The second call was admitted as the probe and is still running when the
\* third is made and invoked.
C32_Witness ==
  /\ last.op = "execute"
  /\ last.pre = "HALF_OPEN"
  /\ last.call = 3
  /\ last.others = {2}
  /\ callPc[1] = "threw"
  /\ callPc[2] = "running"
  /\ callPc[3] = "running"

----------------------------------------------------------------------------
(* Taxonomy: what is written after classification *)

\* x is what classification made of e, but for checkName, url and retryCount.
ClassifiedFrom(x, e) ==
  x = [categorizeError(e) EXCEPT !.checkName = x.checkName, !.url = x.url,
                                 !.retryCount = x.retryCount]

\* x is what classification made of a failure of the operation, but for
\* checkName, url and retryCount.
ClassifiedOnly(x) ==
  \E a \in 1..MaxAttempts : \E e \in FnErrors(a) : ClassifiedFrom(x, e)

\* C33: the category and the severity of a categorized error never change
\* after classification: over the attempts of retry and
\* retryWithErrorHandling and the logging calls they make, every error
\* attached to a log entry, handed to a callback or propagated to the caller
\* is the classification of the failure the operation threw with at most
\* checkName, url and retryCount written, and a retained entry's class,
\* category, severity and text stay as they were.
C33_OnlyContextWritten ==
  /\ [](/\ \A l \in DOMAIN logs :
             logs[l].error /= NoError => ClassifiedOnly(logs[l].error)
        /\ \A i \in Evs("reject") :
             IF wrap.on THEN ClassifiedOnly(trace[i].err)
             ELSE trace[i].err \in FnErrors(trace[i].k)
        /\ (rpc = "rejected" /\ Count("callbackThrew") = 0
              /\ opts.maxAttempts >= 1 /\ wrap.on)
             => ClassifiedOnly(outcome.error))
  /\ [][\A l \in DOMAIN logs :
          l \in DOMAIN logs' =>
            /\ logs'[l].error.cls = logs[l].error.cls
            /\ logs'[l].error.category = logs[l].error.category
            /\ logs'[l].error.severity = logs[l].error.severity
            /\ logs'[l].error.text = logs[l].error.text]_vars

\* The wrapper has written retryCount into a BrowserError that a retained
\* entry holds: the entry shows the new retryCount and the category and
\* severity the error was made with.
C33_Witness ==
  /\ wrap.on
  /\ Len(logs) >= 2
  /\ logs[1].error.cls = "BrowserError"
  /\ logs[1].error.retryCount = 1
  /\ logs[1].error.category = "BROWSER"
  /\ logs[1].error.severity = "WARNING"
  /\ logs[1].metadata[1] = 1

\* C34: a call that execute() admits returns exactly the operation's result
\* if the operation succeeds and raises exactly the operation's failure if it
\* fails, whatever the state of the breaker and whichever calls overlap: a
\* failure never becomes a success and is never replaced by another error.
C34_OutcomePassedThrough ==
  /\ last.op = "succeed" =>
       /\ callPc[last.call] = "returned"
       /\ last.out = Returned(last.call)
  /\ last.op = "fail" =>
       /\ callPc[last.call] = "threw"
       /\ last.err \in BreakerErrors
       /\ last.out = Rejected(last.err)

\* The probe admitted in HALF_OPEN failed with a ValidationError, the breaker
\* is OPEN again and the caller got that ValidationError.
C34_Witness ==
  /\ last.op = "fail"
  /\ last.pre = "HALF_OPEN"
  /\ state = "OPEN"
  /\ last.out.kind = "rejected"
  /\ last.out.error.cls = "ValidationError"

\* C35: an OPEN breaker admits every execute call made strictly more than
\* `timeout` after its last recorded failure, whatever the recorded time is,
\* a clock value of 0 included; so it cannot stay OPEN for ever while calls
\* keep arriving.
C35_AdmitsAfterTimeoutWhateverTheStamp ==
  (last.op = "execute" /\ last.pre = "OPEN" /\ last.lft /= Undefined
     /\ last.at - last.lft > timeout)
  => (callPc[last.call] = "running" /\ state = "HALF_OPEN")

\* C36: with threshold >= 1, in every reachable state, whatever the
\* interleaving of overlapping execute calls and reset calls, the breaker is
\* CLOSED exactly when failureCount < threshold, so OPEN and HALF_OPEN have
\* failureCount >= threshold, and lastFailureTime is defined whenever the
\* state is OPEN or HALF_OPEN.
C36_StateMatchesCount ==
  threshold >= 1 =>
    /\ state = "CLOSED" <=> failureCount < threshold
    /\ state \in {"OPEN", "HALF_OPEN"} =>
         /\ failureCount >= threshold
         /\ lastFailureTime /= Undefined

\* A probe is in flight in HALF_OPEN while the call admitted before the
\* breaker opened has failed as well: the count is above the threshold.
C36_Witness ==
  /\ state = "HALF_OPEN"
  /\ threshold = 1
  /\ failureCount = 2
  /\ lastFailureTime /= Undefined
  /\ \E c \in Calls : callPc[c] = "running"

\* C37: a call rejected because the breaker is OPEN leaves state,
\* failureCount and lastFailureTime as they were and logs nothing: a rejected
\* call does not count as a failure and does not extend the cooldown.
C37_RejectionChangesNothing ==
  [][(last' /= last /\ last'.op = "execute"
        /\ callPc'[last'.call] = "rejected")
     => /\ state = "OPEN"
        /\ UNCHANGED <<state, failureCount, lastFailureTime, streak>>
        /\ UNCHANGED <<logs, consoleLines, fileLines>>
        /\ last'.out = Rejected(CircuitOpen)]_vars

\* A call was rejected some time after the failure that opened the breaker:
\* the stamp and the count are those of that failure and the only log entry
\* is the warning written when the breaker opened.
C37_Witness ==
  /\ last.op = "execute"
  /\ callPc[last.call] = "rejected"
  /\ state = "OPEN"
  /\ last.at > last.lft
  /\ lastFailureTime = last.lft
  /\ failureCount = last.fc
  /\ Len(logs) = 1

----------------------------------------------------------------------------
(* Logger: the error summary *)

\* The sum of the counts of one of the summary's tables.
RECURSIVE SumCounts(_)
SumCounts(f) ==
  IF DOMAIN f = {} THEN 0
  ELSE LET k == CHOOSE k \in DOMAIN f : TRUE
       IN  f[k] + SumCounts([j \in DOMAIN f \ {k} |-> f[j]])

\* The position in the history of the i-th entry at ERROR or above.
ErrorPosition(i) ==
  CHOOSE p \in DOMAIN logs :
    /\ logs[p].level >= LevelERROR
    /\ Cardinality({q \in 1..p : logs[q].level >= LevelERROR}) = i

\* C38: after any sequence of logger operations the summary's byCategory
\* counts sum to totalErrors, and so do those of bySeverity and of byCheck,
\* where an entry without a checkName is counted under "unknown"; errors[]
\* has totalErrors elements, in the order of the retained history.
C38_SummaryCountsAddUp ==
  lastLog.op = "generateErrorSummary" =>
    LET summary == generateErrorSummary(logs)
    IN  /\ summary.totalErrors = lastLog.totalErrors
        /\ SumCounts(summary.byCategory) = summary.totalErrors
        /\ SumCounts(summary.bySeverity) = summary.totalErrors
        /\ SumCounts(summary.byCheck) = summary.totalErrors
        /\ \A i \in DOMAIN logs :
             (logs[i].level >= LevelERROR /\ logs[i].error.checkName = "undefined")
               => "unknown" \in DOMAIN summary.byCheck
        /\ Len(summary.errors) = summary.totalErrors
        /\ \A i \in DOMAIN summary.errors :
             /\ summary.errors[i].message = logs[ErrorPosition(i)].message
             /\ summary.errors[i].category = logs[ErrorPosition(i)].error.category
             /\ summary.errors[i].severity = logs[ErrorPosition(i)].error.severity
             /\ summary.errors[i].checkName = logs[ErrorPosition(i)].error.checkName

\* The summary of a history with an unnamed error of severity ERROR followed
\* by a CRITICAL network error of the check "meta".
C38_Witness ==
  /\ lastLog.op = "generateErrorSummary"
  /\ lastLog.totalErrors = 2
  /\ Len(logs) = 2
  /\ logs[1].error.checkName = "undefined"
  /\ logs[1].error.category = "UNKNOWN"
  /\ logs[2].error.checkName = "meta"
  /\ logs[2].error.category = "NETWORK"

----------------------------------------------------------------------------
(* Retry executor: how a call ends *)

\* The call made no invocation, logged nothing and rejected with undefined.
RejectsWithUndefined ==
  /\ Count("invoke") = 0
  /\ logs = <<>>
  /\ consoleLines = <<>>
  /\ fileLines = <<>>
  /\ Finished => (outcome = Rejected(NoError) /\ trace[Len(trace)].ev = "loopExit")

\* The call never reaches the throw after the loop and, once finished, has
\* invoked the operation at least once.
EndsInsideLoop ==
  /\ Count("loopExit") = 0
  /\ Finished => Count("invoke") >= 1

\* The finished call propagates a failure the operation threw.
PropagatesOperationFailure ==
  /\ rpc = "rejected"
  /\ \E i \in Evs("reject") : outcome.error = trace[i].err

C40_CallbackExceptionPropagates ==
  \A i \in Evs("callbackThrew") :
    /\ i = Len(trace)
    /\ opts.callbacks = "custom"
    /\ trace[i - 1].ev \in {"shouldRetry:throws", "onRetry"}
    /\ rpc = "rejected"
    /\ outcome = Rejected(CallbackError(IF trace[i - 1].ev = "onRetry" THEN "onRetry"
                                        ELSE "shouldRetry", trace[i].k))
    /\ outcome.error /= trace[i].err
    /\ Count("invoke") = trace[i].k
    /\ running = 0
    /\ Count("logError") = 0
    /\ \A l \in DOMAIN logs : logs[l].level = LevelWARN /\ logs[l].metadata /= <<>>

\* onRetry threw after the second failure: the call rejected with onRetry's
\* exception after two invocations and one logged retry.
C40_Witness ==
  /\ rpc = "rejected"
  /\ outcome.error.src = "onRetry"
  /\ Count("invoke") = 2
  /\ Count("callbackThrew") = 1
  /\ Count("logRetry") = 1
  /\ Len(logs) = 1

====
